---- MODULE Spec2Model ----
(***************************************************************************)
(* Expense tracker: the serverless REST handlers over the four MongoDB     *)
(* collections (users, categories, expenses, budgets) and the report       *)
(* handlers, as state machines.                                            *)
(*                                                                         *)
(*   SpecBudget      createBudget, updateBudget, deleteBudget, served one  *)
(*                   after the other                                       *)
(*   SpecBudgetRace  createBudget requests whose database round trips      *)
(*                   interleave, on a seeded database                      *)
(*   SpecCategory    categories and the expenses that reference them       *)
(*   SpecTrends      GET /api/reports/trends over a stored expense set     *)
(*   SpecRange       GET /api/reports/by-category and /api/reports/export  *)
(*   SpecMonthly     GET /api/reports/monthly over a stored expense set    *)
(*   SpecCategoryRace  createCategory requests whose round trips           *)
(*                   interleave                                            *)
(*   SpecBudgetAccess  both users creating, reading, listing, updating     *)
(*                   and deleting budgets                                  *)
(*   SpecList        GET /api/expenses over a stored expense set           *)
(*   SpecRegister    register requests whose round trips interleave        *)
(*   SpecCsv         the CSV text of the export, character by character    *)
(*   SpecSearch, SpecSearchLive  the debounced search box of the client's  *)
(*                   expenses page (Live: with fairness)                   *)
(*   SpecFilters     the filter panel of the client's expenses page        *)
(*   SpecIntegrity   categories and budgets created, updated and deleted   *)
(***************************************************************************)
EXTENDS Integers, Sequences, FiniteSets, TLC

VARIABLES
  categories,   \* the categories collection: a set of documents
  budgets,      \* the budgets collection: a set of documents
  expenses,     \* the expenses collection: a sequence of documents (natural order)
  pending,      \* requests between two of their database round trips
  resp,         \* the response of the request answered last
  seeded,       \* TRUE when scripts/seed.ts has run against the database
  ids,          \* how many ObjectIds each collection has handed out
  now,          \* the instant new Date() returns in the report handlers
  tz,           \* offset of the server's local time zone from UTC, in ms
  users,        \* the users collection: a set of documents
  ui            \* the state of the client's expenses page

vars ==
  <<categories, budgets, expenses, pending, resp, seeded, ids, now, tz, users, ui>>

NULL == "null"

\* ------------------------------------------------------------------------
\* Bounds of the model
\* ------------------------------------------------------------------------
MaxBudgetInserts == 2     \* budgets.insertOne calls that succeed in a run
MaxPending == 2           \* requests in flight at once
MaxCategoryInserts == 2   \* categories.insertOne calls in a run
MaxExpenseInserts == 2    \* expenses inserted in a run of SpecCategory
MaxTrendExpenses == 2     \* stored expense documents in SpecTrends
MaxRangeExpenses == 2     \* stored expense runs in SpecRange

Users == {"u1", "u2"}

\* The ObjectIds the users collection hands out, in order, and the documents
\* of the two users who hold a token.
UserIds == <<"u1", "u2", "u3", "u4", "u5">>
StoredUsers == {[_id |-> "u1", email |-> "u1@x"], [_id |-> "u2", email |-> "u2@x"]}

\* ------------------------------------------------------------------------
\* UTC calendar: what Date.UTC, getUTCFullYear, getUTCMonth and setUTCDate
\* compute.  An instant is [day |-> days since 1970-01-01, ms |-> ms of day].
\* ------------------------------------------------------------------------
MsPerSecond == 1000
MsPerDay == 86400000

\* Days from 1970-01-01 to the civil date y-m-d (m in 1..12), proleptic
\* Gregorian calendar.
DaysFromCivil(y, m, d) ==
  LET yy  == IF m <= 2 THEN y - 1 ELSE y
      era == yy \div 400
      yoe == yy - era * 400
      mp  == IF m > 2 THEN m - 3 ELSE m + 9
      doy == (153 * mp + 2) \div 5 + d - 1
      doe == yoe * 365 + yoe \div 4 - yoe \div 100 + doy
  IN  era * 146097 + doe - 719468

\* The civil date of a day number: [y, m (1..12), d].
CivilFromDays(z) ==
  LET zz  == z + 719468
      era == zz \div 146097
      doe == zz - era * 146097
      yoe == (doe - doe \div 1460 + doe \div 36524 - doe \div 146096) \div 365
      doy == doe - (365 * yoe + yoe \div 4 - yoe \div 100)
      mp  == (5 * doy + 2) \div 153
      d   == doy - (153 * mp + 2) \div 5 + 1
      m   == IF mp < 10 THEN mp + 3 ELSE mp - 9
      y   == yoe + era * 400 + (IF m <= 2 THEN 1 ELSE 0)
  IN  [y |-> y, m |-> m, d |-> d]

At(y, m, d, ms) == [day |-> DaysFromCivil(y, m, d), ms |-> ms]

\* date.getUTCFullYear() * 12 + date.getUTCMonth(): the absolute UTC month.
AbsMonth(t) == LET c == CivilFromDays(t.day) IN c.y * 12 + (c.m - 1)

\* new Date(Date.UTC(year, month, 1)) for any integer month (Date.UTC carries
\* months outside 0..11 into the year); am = year * 12 + month.
DateUTCMonth(am) == At(am \div 12, (am % 12) + 1, 1, 0)

Before(a, b) == a.day < b.day \/ (a.day = b.day /\ a.ms < b.ms)
NotBefore(a, b) == ~Before(a, b)

\* end.setUTCDate(end.getUTCDate() + 1)
PlusOneUTCDay(t) == [day |-> t.day + 1, ms |-> t.ms]

\* getHours() = 0, getMinutes() = 0 and getSeconds() = 0, read in the
\* server's local time zone.
LocalHMSZero(t, zone) == ((t.ms + zone) % MsPerDay) < MsPerSecond

\* "YYYY-MM" as the handlers print it: year and 1-based month.
MonthKey(am) == [y |-> am \div 12, m |-> (am % 12) + 1]

\* ------------------------------------------------------------------------
\* Category names: strings as sequences of characters
\* ------------------------------------------------------------------------
Lower(c) ==
  CASE c = "F" -> "f" [] c = "O" -> "o" [] c = "D" -> "d"
    [] c = "R" -> "r" [] c = "E" -> "e" [] c = "N" -> "n" [] c = "T" -> "t"
    [] OTHER -> c

\* String.prototype.trim
RECURSIVE TrimLeft(_)
TrimLeft(s) == IF s # <<>> /\ Head(s) = " " THEN TrimLeft(Tail(s)) ELSE s
RECURSIVE TrimRight(_)
TrimRight(s) ==
  IF s # <<>> /\ s[Len(s)] = " " THEN TrimRight(SubSeq(s, 1, Len(s) - 1)) ELSE s
Trim(s) == TrimRight(TrimLeft(s))

\* Equality under the collation { locale: "en", strength: 2 }: letters compare
\* without regard to case.
Fold(s) == [i \in 1..Len(s) |-> Lower(s[i])]
CollationEq(a, b) == Fold(a) = Fold(b)

Food == <<"F", "o", "o", "d">>
Rent == <<"R", "e", "n", "t">>
Uncategorized == <<"U", "n", "c", "a", "t", "e", "g", "o", "r", "i", "z", "e", "d">>

\* ------------------------------------------------------------------------
\* Documents and request values
\* ------------------------------------------------------------------------
\* ObjectIds are naturals, handed out in order and never reused.  In a
\* request a categoryId is a string: the 24 hex digits of an ObjectId (the
\* natural itself), something that is no ObjectId, the blank string, or the
\* field is left out.
NullId == -1      \* categoryId: null
BadHex == -2      \* a string new ObjectId() throws on
BlankStr == -3    \* ""
Absent == -4      \* the field is undefined
NoName == <<>>    \* category name left out of the body
NoDate == [day |-> -1, ms |-> 0]   \* periodStart left out of the body

\* scripts/seed.ts: the global default categories (userId: null).
DefaultCats == {[_id |-> 0, name |-> Food, userId |-> NULL]}

\* jsonResponse(status, { error }) to a request of user u; req: the categoryId
\* and periodStart a createBudget request carried.
NoReq == [categoryId |-> Absent, category |-> NoName, periodStart |-> NoDate]
ResponseTo(op, u, status, error, req) ==
  [op |-> op, user |-> u, status |-> status, error |-> error, req |-> req]
Response(op, u, status, error) == ResponseTo(op, u, status, error, NoReq)
NoResp == Response("none", NULL, 0, "")

\* What a request in flight remembers: its inputs as sent (req...) and what it
\* has resolved so far.
Idle == [pc |-> "idle", user |-> NULL, categoryId |-> NullId, category |-> NoName,
         periodStart |-> NoDate, amount |-> 0, reqName |-> NoName,
         reqPeriod |-> NoDate, email |-> NULL]

\* The expenses page is not open.
NoUi == [open |-> FALSE]

FreeSlots == {i \in DOMAIN pending : pending[i].pc = "idle"}
InFlight(pcs) == {i \in DOMAIN pending : pending[i].pc \in pcs}

\* A request answered within one step.
Answer(r) ==
  /\ resp' = r
  /\ UNCHANGED <<categories, budgets, expenses, pending, seeded, ids, now, tz, users, ui>>

\* { _id: cid, $or: [{ userId }, { userId: null }] }
AccessibleCategory(cid, u) ==
  {c \in categories : c._id = cid /\ (c.userId = u \/ c.userId = NULL)}

\* Variant: periodStart stored as sent, not moved to the first of its month.
PeriodStartAsSent(p) == p

\* Variant: periodStart moved to midnight of its own UTC day.
PeriodStartUTCDay(p) == [day |-> p.day, ms |-> 0]

\* new Date(Date.UTC(p.getUTCFullYear(), p.getUTCMonth(), 1))
CanonicalPeriodStart(p) == DateUTCMonth(AbsMonth(p))

\* Variant: a budgets collection without the unique index.
NoUniqueIndex(doc, self) == FALSE

\* The unique index scripts/seed.ts puts on budgets: { userId: 1, category: 1 }.
\* TRUE when the collection holds a document other than `self` with the index
\* key of doc, so that the write fails with a duplicate-key error.
DuplicateKey(doc, self) ==
  seeded /\ \E b \in budgets :
    b._id # self /\ b.userId = doc.userId /\ b.category = doc.category

\* ------------------------------------------------------------------------
\* POST /api/budgets  (handlers/budgets/createBudget.ts)
\* ------------------------------------------------------------------------
PeriodInputs ==
  {At(2024, 1, 1, 0), At(2024, 1, 31, MsPerDay - 1), At(2024, 2, 15, 43200000)}
Amounts == {100}
CategoryIdInputs == {0, 1, 2, BadHex, BlankStr, Absent}
CategoryInputs == {NoName, <<"Z">>}

\* Variant: the category name the client sent is stored when there is one.
SentCategoryName(sent, cat) == IF sent = NoName THEN cat.name ELSE sent

\* resolvedCategoryName where the category cat was found: the initial
\* category ?? "Uncategorized" is overwritten with cat.name.
ResolvedCategoryName(sent, cat) == cat.name

\* The request arrives: body validation, the categoryId presence check and
\* the category lookup (the first database round trip).
CreateBudgetStart(u, cid, name, ps, amt) ==
  IF cid \in {Absent, BlankStr}
  THEN Answer(Response("createBudget", u, 400, "missing_category"))
  ELSE IF cid = BadHex
  THEN Answer(Response("createBudget", u, 400, "invalid_category_id"))
  ELSE IF AccessibleCategory(cid, u) = {}
  THEN Answer(Response("createBudget", u, 400, "invalid_category"))
  ELSE IF ps = NoDate
  THEN Answer(Response("createBudget", u, 400, "invalid_period"))
  ELSE
    /\ ids.bud + Cardinality(InFlight({"conflict", "insert"})) < MaxBudgetInserts
    /\ \E i \in FreeSlots, cat \in AccessibleCategory(cid, u) :
         pending' = [pending EXCEPT ![i] =
           [Idle EXCEPT !.pc = "conflict", !.user = u, !.categoryId = cid,
                        !.category = ResolvedCategoryName(name, cat),
                        !.periodStart = CanonicalPeriodStart(ps),
                        !.amount = amt, !.reqName = name, !.reqPeriod = ps]]
    /\ UNCHANGED <<categories, budgets, expenses, resp, seeded, ids, now, tz, users, ui>>

\* budgets.findOne({ userId, categoryId, periodStart })
BudgetConflict(u, cid, ps) ==
  {b \in budgets : b.userId = u /\ b.categoryId = cid /\ b.periodStart = ps}

\* The uniqueness lookup (the second round trip).
CreateBudgetConflict(i) ==
  LET r == pending[i] IN
  /\ r.pc = "conflict"
  /\ IF BudgetConflict(r.user, r.categoryId, r.periodStart) # {}
     THEN /\ resp' = ResponseTo("createBudget", r.user, 409, "budget_exists",
                                [categoryId |-> r.categoryId, category |-> r.reqName,
                                 periodStart |-> r.reqPeriod])
          /\ pending' = [pending EXCEPT ![i] = Idle]
     ELSE /\ pending' = [pending EXCEPT ![i].pc = "insert"]
          /\ UNCHANGED resp
  /\ UNCHANGED <<categories, budgets, expenses, seeded, ids, now, tz, users, ui>>

\* budgets.insertOne(doc) (the third round trip); a duplicate-key error of
\* the seeded index lands in the catch block.
CreateBudgetInsert(i) ==
  LET r == pending[i]
      doc == [_id |-> ids.bud + 1, userId |-> r.user, categoryId |-> r.categoryId,
              category |-> r.category, periodStart |-> r.periodStart,
              amount |-> r.amount]
  IN
  /\ r.pc = "insert"
  /\ pending' = [pending EXCEPT ![i] = Idle]
  /\ IF DuplicateKey(doc, doc._id)
     THEN /\ resp' = ResponseTo("createBudget", r.user, 500, "server_error",
                                [categoryId |-> r.categoryId, category |-> r.reqName,
                                 periodStart |-> r.reqPeriod])
          /\ UNCHANGED <<budgets, ids>>
     ELSE /\ budgets' = budgets \cup {doc}
          /\ ids' = [ids EXCEPT !.bud = @ + 1]
          /\ resp' = ResponseTo("createBudget", r.user, 201, "",
                                [categoryId |-> r.categoryId, category |-> r.reqName,
                                 periodStart |-> r.reqPeriod])
  /\ UNCHANGED <<categories, expenses, seeded, now, tz, users, ui>>

\* ------------------------------------------------------------------------
\* PUT /api/budgets/{id}  (handlers/budgets/updateBudget.ts)
\* ------------------------------------------------------------------------
BudgetIdInputs == 1..MaxBudgetInserts
NameInputs == {Rent, <<"Z">>}

\* categories.findOne({ name, userId }) || categories.findOne({ name, userId: null })
CategoryByName(name, u) ==
  LET own == {c \in categories : c.name = name /\ c.userId = u}
      glob == {c \in categories : c.name = name /\ c.userId = NULL}
  IN  IF own # {} THEN own ELSE glob

\* The $set payload without updatedAt: the fields the request changes.  A
\* field that is not set carries Absent, NoName or NoDate.
\* up = [amount, categoryId, category, periodStart] as sent.
SetPayloads(up, u) ==
  LET period == IF up.periodStart = NoDate THEN NoDate
                ELSE CanonicalPeriodStart(up.periodStart)
      base == [amount |-> up.amount, categoryId |-> Absent, category |-> NoName,
               periodStart |-> period]
  IN
  IF up.categoryId # Absent
  THEN IF up.categoryId = NullId
       THEN {[base EXCEPT !.categoryId = NullId, !.category = Uncategorized]}
       ELSE {[base EXCEPT !.categoryId = c._id, !.category = c.name] :
               c \in AccessibleCategory(up.categoryId, u)}
  ELSE IF up.category # NoName
  THEN IF CategoryByName(up.category, u) # {}
       THEN {[base EXCEPT !.categoryId = c._id, !.category = c.name] :
               c \in CategoryByName(up.category, u)}
       ELSE {[base EXCEPT !.categoryId = NullId, !.category = up.category]}
  ELSE {base}

\* budgets.findOne({ _id: { $ne: bid }, userId, categoryId })
BudgetClash(bid, u, cid) ==
  {b \in budgets : b._id # bid /\ b.userId = u /\ b.categoryId = cid}

\* { $set: setPayload } applied to one document.
ApplySet(b, sp) ==
  [b EXCEPT
     !.amount = IF sp.amount = Absent THEN @ ELSE sp.amount,
     !.categoryId = IF sp.categoryId = Absent THEN @ ELSE sp.categoryId,
     !.category = IF sp.categoryId = Absent THEN @ ELSE sp.category,
     !.periodStart = IF sp.periodStart = NoDate THEN @ ELSE sp.periodStart]

\* What serving the request does: the answer, the documents its body returns
\* (data) and the budgets collection after it.
UpdateBudgetOutcomes(u, bid, up) ==
  LET O(status, error, bs, data) ==
        [status |-> status, error |-> error, budgets |-> bs, data |-> data]
  IN
  IF up.amount = Absent /\ up.categoryId = Absent /\ up.category = NoName
     /\ up.periodStart = NoDate
  THEN {O(400, "no_updates", budgets, {})}
  ELSE IF up.categoryId = BadHex
  THEN {O(400, "invalid_category_id", budgets, {})}
  ELSE IF SetPayloads(up, u) = {}
  THEN {O(400, "invalid_category", budgets, {})}
  ELSE UNION {
    IF sp.categoryId \notin {Absent, NullId} /\ BudgetClash(bid, u, sp.categoryId) # {}
    THEN {O(409, "budget_exists", budgets, {})}
    ELSE LET found == {b \in budgets : b._id = bid /\ b.userId = u} IN
      IF found = {}
      THEN {O(404, "not_found", budgets, {})}
      ELSE {IF DuplicateKey(ApplySet(b, sp), bid)
            THEN O(500, "server_error", budgets, {})
            ELSE O(200, "", (budgets \ {b}) \cup {ApplySet(b, sp)}, {ApplySet(b, sp)})
              : b \in found}
    : sp \in SetPayloads(up, u)}

\* The request served in one step.
UpdateBudget(u, bid, up) ==
  /\ \E o \in UpdateBudgetOutcomes(u, bid, up) :
       /\ budgets' = o.budgets
       /\ resp' = Response("updateBudget", u, o.status, o.error)
  /\ UNCHANGED <<categories, expenses, pending, seeded, ids, now, tz, users, ui>>

\* ------------------------------------------------------------------------
\* DELETE /api/budgets/{id}  (handlers/budgets/deleteBudget.ts)
\* ------------------------------------------------------------------------
DeleteBudget(u, bid) ==
  LET found == {b \in budgets : b._id = bid /\ b.userId = u} IN
  IF found = {}
  THEN Answer(Response("deleteBudget", u, 404, "not_found"))
  ELSE /\ budgets' = budgets \ found
       /\ resp' = Response("deleteBudget", u, 200, "")
       /\ UNCHANGED <<categories, expenses, pending, seeded, ids, now, tz, users, ui>>

\* ------------------------------------------------------------------------
\* GET /api/budgets/{id}  (handlers/getBudget.ts)
\* ------------------------------------------------------------------------
\* Variant: a lookup by id alone.
BudgetWithId(bid, u) == {b \in budgets : b._id = bid}

\* budgets.findOne({ _id: bid, userId })
OwnBudget(bid, u) == {b \in budgets : b._id = bid /\ b.userId = u}

\* The answer to a read: id is the budget id asked for (Absent for the list),
\* data the documents in the body, in order.
ReadResponse(op, u, status, error, id, data) ==
  [op |-> op, user |-> u, status |-> status, error |-> error, req |-> NoReq,
   id |-> id, data |-> data]

GetBudget(u, bid) ==
  IF bid = Absent
  THEN Answer(ReadResponse("getBudget", u, 400, "missing_id", bid, <<>>))
  ELSE IF bid = BadHex
  THEN Answer(ReadResponse("getBudget", u, 400, "invalid_id", bid, <<>>))
  ELSE IF OwnBudget(bid, u) = {}
  THEN Answer(ReadResponse("getBudget", u, 404, "not_found", bid, <<>>))
  ELSE \E doc \in OwnBudget(bid, u) :
         Answer(ReadResponse("getBudget", u, 200, "", bid, <<doc>>))

\* ------------------------------------------------------------------------
\* GET /api/budgets  (handlers/budgets/getAllBudgets.ts)
\* ------------------------------------------------------------------------
\* filter: { userId }, with periodStart (canonical) and categoryId when sent.
ListFilter(b, u, ps, cid) ==
  /\ b.userId = u
  /\ (ps # NoDate => b.periodStart = CanonicalPeriodStart(ps))
  /\ (cid # Absent => b.categoryId = cid)

\* .sort({ periodStart: -1 }): the orders in which the documents can come,
\* documents of one periodStart in either order.
RECURSIVE SortedByPeriodDesc(_)
SortedByPeriodDesc(docs) ==
  IF docs = {} THEN {<<>>}
  ELSE UNION {{<<d>> \o t : t \in SortedByPeriodDesc(docs \ {d})} :
                d \in {x \in docs : \A y \in docs : NotBefore(x.periodStart, y.periodStart)}}

GetAllBudgets(u, ps, cid) ==
  IF cid = BadHex
  THEN Answer(ReadResponse("getAllBudgets", u, 400, "validation_error", Absent, <<>>))
  ELSE \E docs \in SortedByPeriodDesc({b \in budgets : ListFilter(b, u, ps, cid)}) :
         Answer(ReadResponse("getAllBudgets", u, 200, "", Absent, docs))

\* ------------------------------------------------------------------------
\* POST /api/categories  (handlers/categories/createCategories.ts)
\* ------------------------------------------------------------------------
RawNameInputs ==
  {<<" ", "f", "O", "O", "D", " ">>, Rent, <<"r", "e", "n", "t", " ">>}

\* Variant: the duplicate lookup without the collation (exact match).
ExistingCategoryExact(name, u) ==
  {c \in categories : c.name = name /\ (c.userId = NULL \/ c.userId = u)}

\* categories.findOne({ name, $or: [{ userId: null }, { userId }] },
\*                    { collation: { locale: "en", strength: 2 } })
ExistingCategory(name, u) ==
  {c \in categories :
     CollationEq(c.name, name) /\ (c.userId = NULL \/ c.userId = u)}

\* The request arrives: validation, trim and the duplicate lookup.
CreateCategoryStart(u, rawName) ==
  LET name == Trim(rawName) IN
  IF ExistingCategory(name, u) # {}
  THEN Answer(Response("createCategory", u, 409, "category_exists"))
  ELSE
    /\ ids.cat + Cardinality(InFlight({"catInsert"})) < MaxCategoryInserts
    /\ \E i \in FreeSlots :
         pending' = [pending EXCEPT ![i] =
           [Idle EXCEPT !.pc = "catInsert", !.user = u, !.category = name,
                        !.reqName = rawName]]
    /\ UNCHANGED <<categories, budgets, expenses, resp, seeded, ids, now, tz, users, ui>>

\* categories.insertOne(doc)
CreateCategoryInsert(i) ==
  LET r == pending[i]
      doc == [_id |-> ids.cat + 1, name |-> r.category, userId |-> r.user]
  IN
  /\ r.pc = "catInsert"
  /\ categories' = categories \cup {doc}
  /\ ids' = [ids EXCEPT !.cat = @ + 1]
  /\ pending' = [pending EXCEPT ![i] = Idle]
  /\ resp' = Response("createCategory", r.user, 201, "")
  /\ UNCHANGED <<budgets, expenses, seeded, now, tz, users, ui>>

\* ------------------------------------------------------------------------
\* DELETE /api/categories/{id}  (handlers/categories/deleteCategory.ts)
\* ------------------------------------------------------------------------
\* A stored expense categoryId: null, an ObjectId, or the ObjectId's string.
Oid(id) == [form |-> "oid", id |-> id]
Str(id) == [form |-> "str", id |-> id]
NoCategoryId == [form |-> "null", id |-> NullId]

\* Variant: a cascade filter that matches the ObjectId form only.
CascadeFilterOidOnly(e, catId) == e.categoryId = Oid(catId)

\* { $or: [{ categoryId: catId }, { categoryId: String(catId) }] }
CascadeFilter(e, catId) == e.categoryId = Oid(catId) \/ e.categoryId = Str(catId)

\* updateMany(filter, { $set: { categoryId: null, category: "Uncategorized" } })
CascadeUpdate(es, catId) ==
  [k \in DOMAIN es |->
     IF CascadeFilter(es[k], catId)
     THEN [es[k] EXCEPT !.categoryId = NoCategoryId, !.category = Uncategorized]
     ELSE es[k]]

\* Variant: a delete filter on the id alone.
CategoryWithId(cid, u) == {c \in categories : c._id = cid}

\* The filter { _id: catId, userId }.
OwnCategory(cid, u) == {c \in categories : c._id = cid /\ c.userId = u}

\* categories.deleteOne({ _id: catId, userId }); the 404 is recorded with the
\* id it answers.
DeleteCategory(u, cid) ==
  LET found == OwnCategory(cid, u) IN
  IF cid = BadHex
  THEN Answer(Response("deleteCategory", u, 400, "invalid_id"))
  ELSE IF found = {}
  THEN Answer(ResponseTo("deleteCategory", u, 404, "not_found",
                         [categoryId |-> cid, category |-> NoName,
                          periodStart |-> NoDate]))
  ELSE
    /\ categories' = categories \ found
    /\ \E i \in FreeSlots :
         pending' = [pending EXCEPT ![i] =
           [Idle EXCEPT !.pc = "cascade", !.user = u, !.categoryId = cid]]
    /\ UNCHANGED <<budgets, expenses, resp, seeded, ids, now, tz, users, ui>>

\* The cascade over the expenses, then 204.
DeleteCategoryCascade(i) ==
  LET r == pending[i] IN
  /\ r.pc = "cascade"
  /\ expenses' = CascadeUpdate(expenses, r.categoryId)
  /\ pending' = [pending EXCEPT ![i] = Idle]
  /\ resp' = Response("deleteCategory", r.user, 204, "")
  /\ UNCHANGED <<categories, budgets, seeded, ids, now, tz, users, ui>>

\* The database fails on updateMany: the catch block answers 500.
DeleteCategoryCascadeFails(i) ==
  LET r == pending[i] IN
  /\ r.pc = "cascade"
  /\ pending' = [pending EXCEPT ![i] = Idle]
  /\ resp' = Response("deleteCategory", r.user, 500, "server_error")
  /\ UNCHANGED <<categories, budgets, expenses, seeded, ids, now, tz, users, ui>>

\* ------------------------------------------------------------------------
\* Expense documents
\* ------------------------------------------------------------------------
\* count: the number of stored documents that agree with this one on every
\* field but _id (a run of equal documents is kept as one entry).
Expense(u, amt, cur, cat, cid, date, n) ==
  [userId |-> u, amount |-> amt, currency |-> cur, category |-> cat,
   categoryId |-> cid, date |-> date, count |-> n]

\* POST /api/expenses: an expense of user u filed under a category u can see,
\* its categoryId stored as an ObjectId or (older documents) as a string.
InsertExpense(u, cid, asString) ==
  /\ Len(expenses) < MaxExpenseInserts
  /\ \E c \in AccessibleCategory(cid, u) :
       expenses' = Append(expenses,
         Expense(u, 100, "USD", c.name, IF asString THEN Str(cid) ELSE Oid(cid),
                 At(2024, 1, 10, 0), 1))
  /\ UNCHANGED <<categories, budgets, pending, resp, seeded, ids, now, tz, users, ui>>

\* The stored currencies: the expense schema admits USD and NGN.
Currencies == {"USD", "NGN"}

\* The sum of the amounts of the documents es stands for.
RECURSIVE Total(_)
Total(es) ==
  IF es = <<>> THEN 0 ELSE Head(es).amount * Head(es).count + Total(Tail(es))

\* The number of documents es stands for.
RECURSIVE DocCount(_)
DocCount(es) == IF es = <<>> THEN 0 ELSE Head(es).count + DocCount(Tail(es))

\* The sequences of at most n members of S.
SeqsUpTo(S, n) == UNION {[1..k -> S] : k \in 0..n}

\* The orders in which the n results of a query can come back.
Orders(n) == {p \in [1..n -> 1..n] : \A i, j \in 1..n : i # j => p[i] # p[j]}

Min2(a, b) == IF a <= b THEN a ELSE b
Max2(a, b) == IF a >= b THEN a ELSE b

\* ------------------------------------------------------------------------
\* GET /api/reports/trends  (handlers/reports/trendReports.ts)
\* ------------------------------------------------------------------------
\* The months query parameter: left out, the empty string, a string Number()
\* reads as a number, or one it reads as NaN.  Numbers are kept in halves
\* (halves = 5 is "2.5") so that a fraction can be asked for.
NoParam == [kind |-> "absent", halves |-> 0]
EmptyParam == [kind |-> "empty", halves |-> 0]
NotANumber == [kind |-> "nan", halves |-> 0]
Num(h) == [kind |-> "num", halves |-> h]
MonthsInputs ==
  {NoParam, EmptyParam, NotANumber} \cup {Num(h) : h \in {-6, 0, 2, 4, 5, 6, 50}}

\* .transform((v) => (v ? Number(v) : 6))
MonthsRaw(q) == IF q.kind \in {"absent", "empty"} THEN Num(12) ELSE q

\* Math.max(1, Math.min(24, monthsRaw)); NaN goes through both.
ClampMonths(raw) ==
  IF raw.kind = "nan" THEN raw ELSE Num(Max2(2, Min2(48, raw.halves)))

\* Date.UTC reads its month argument with ToIntegerOrInfinity: x/2 cut
\* toward zero.
TruncHalves(x) == IF x >= 0 THEN x \div 2 ELSE -((-x) \div 2)

\* Date.UTC(now.getUTCFullYear(), now.getUTCMonth() - (months - 1), 1), as
\* an absolute month.
TrendStart(t, months) ==
  LET c == CivilFromDays(t.day) IN
  c.y * 12 + TruncHalves(2 * (c.m - 1) - (months.halves - 2))

\* { $match: { userId, date: { $gte: start } } }
TrendMatch(es, u, start) ==
  SelectSeq(es, LAMBDA e : e.userId = u /\ NotBefore(e.date, start))

\* The $group total of (year, month, currency), as the Map keeps it.
TrendTotal(es, am, cur) ==
  Total(SelectSeq(es, LAMBDA e : AbsMonth(e.date) = am /\ e.currency = cur))

\* map.get(key) ?? { month: key, totalUSD: 0, totalNGN: 0 }
TrendEntry(matched, am) ==
  [month |-> MonthKey(am), totalUSD |-> TrendTotal(matched, am, "USD"),
   totalNGN |-> TrendTotal(matched, am, "NGN")]

\* How often the body of for (let i = 0; i < months; i++) runs; never when
\* months is NaN.
LoopCount(months) ==
  IF months.kind = "nan" THEN 0 ELSE (months.halves + 1) \div 2

TrendSeries(es, u, t, months) ==
  LET start == TrendStart(t, months)
      matched == TrendMatch(es, u, DateUTCMonth(start))
  IN  [i \in 1..LoopCount(months) |-> TrendEntry(matched, start + i - 1)]

Trends(u, q) ==
  /\ resp' = [op |-> "trends", user |-> u, status |-> 200, error |-> "",
              months |-> q,
              series |-> TrendSeries(expenses, u, now, ClampMonths(MonthsRaw(q)))]
  /\ UNCHANGED <<categories, budgets, expenses, pending, seeded, ids, now, tz, users, ui>>

\* ------------------------------------------------------------------------
\* GET /api/reports/by-category  (handlers/reports/categoryReports.ts)
\* GET /api/reports/export       (handlers/reports/expensesReport.ts)
\* ------------------------------------------------------------------------
\* end: `to`, moved on by one UTC day when the server's local clock reads
\* 00:00:00 at `to`.
RangeEnd(to, zone) == IF LocalHMSZero(to, zone) THEN PlusOneUTCDay(to) ELSE to

\* { userId, date: { $gte: from, $lt: end } }
RangeMatch(es, u, from, end) ==
  SelectSeq(es, LAMBDA e : e.userId = u /\ NotBefore(e.date, from) /\ Before(e.date, end))

\* $group: { _id: { categoryId, category }, totalUSD, totalNGN, totalAll }
GroupKeys(es) ==
  {[categoryId |-> es[k].categoryId, category |-> es[k].category] : k \in DOMAIN es}
GroupRow(es, g) ==
  LET grp == SelectSeq(es, LAMBDA e : e.categoryId = g.categoryId /\ e.category = g.category)
  IN  [categoryId |-> g.categoryId, category |-> g.category,
       totalUSD |-> Total(SelectSeq(grp, LAMBDA e : e.currency = "USD")),
       totalNGN |-> Total(SelectSeq(grp, LAMBDA e : e.currency = "NGN")),
       totalAll |-> Total(grp)]

\* Variant: the rows sorted by ascending totalAll.
SortedAscending(rows) ==
  \A i \in 1..(Len(rows) - 1) : rows[i].totalAll <= rows[i + 1].totalAll

\* { $sort: { totalAll: -1 } }
SortedByTotalAll(rows) ==
  \A i \in 1..(Len(rows) - 1) : rows[i].totalAll >= rows[i + 1].totalAll

\* $project: totalAll is dropped.
Project(row) ==
  [categoryId |-> row.categoryId, category |-> row.category,
   totalUSD |-> row.totalUSD, totalNGN |-> row.totalNGN]

CategoryReport(u, from, to) ==
  LET matched == RangeMatch(expenses, u, from, RangeEnd(to, tz))
      groups == {GroupRow(matched, g) : g \in GroupKeys(matched)}
      n == Cardinality(groups)
  IN
  /\ \E rows \in {f \in [1..n -> groups] : \A i, j \in 1..n : i # j => f[i] # f[j]} :
       /\ SortedByTotalAll(rows)
       /\ resp' = [op |-> "byCategory", user |-> u, status |-> 200, error |-> "",
                   from |-> from, to |-> to,
                   rows |-> [i \in 1..n |-> Project(rows[i])]]
  /\ UNCHANGED <<categories, budgets, expenses, pending, seeded, ids, now, tz, users, ui>>

MAX_ROWS == 5000

\* Variant: the cursor limited to MAX_ROWS documents.
LimitAtMaxRows == MAX_ROWS

\* .limit(MAX_ROWS + 1)
FetchLimit == MAX_ROWS + 1

\* The first n of the documents es stands for.
RECURSIVE Take(_, _)
Take(es, n) ==
  IF n <= 0 \/ es = <<>> THEN <<>>
  ELSE IF Head(es).count <= n
  THEN <<Head(es)>> \o Take(Tail(es), n - Head(es).count)
  ELSE <<[Head(es) EXCEPT !.count = n]>>

\* .sort({ date: -1 })
SortedByDateDesc(es) ==
  \A i \in 1..(Len(es) - 1) : NotBefore(es[i].date, es[i + 1].date)

\* One CSV data row: formatDateOnlyUTC(d.date) (the UTC day), d.category,
\* formatAmount(d.amount); count rows of it.
CsvRecord(e) ==
  [date |-> e.date.day, category |-> e.category, amount |-> e.amount,
   count |-> e.count]

FormatInputs == {"absent", "csv", "json"}

ExpensesExport(u, from, to, format) ==
  LET R(status, error, records) ==
        [op |-> "export", user |-> u, status |-> status, error |-> error,
         from |-> from, to |-> to, records |-> records]
      matched == RangeMatch(expenses, u, from, RangeEnd(to, tz))
  IN
  /\ IF format = "json"
     THEN resp' = R(400, "unsupported_format", <<>>)
     ELSE \E p \in Orders(Len(matched)) :
            LET sorted == [i \in 1..Len(matched) |-> matched[p[i]]]
                docs == Take(sorted, FetchLimit)
            IN  /\ SortedByDateDesc(sorted)
                /\ IF DocCount(docs) > MAX_ROWS
                   THEN resp' = R(413, "too_large", <<>>)
                   ELSE resp' = R(200, "", [i \in 1..Len(docs) |-> CsvRecord(docs[i])])
  /\ UNCHANGED <<categories, budgets, expenses, pending, seeded, ids, now, tz, users, ui>>

\* ------------------------------------------------------------------------
\* Specifications over the collections
\* ------------------------------------------------------------------------
InitRest ==
  /\ budgets = {}
  /\ expenses = <<>>
  /\ pending = [i \in 1..MaxPending |-> Idle]
  /\ resp = NoResp
  /\ now = At(2024, 3, 15, 0)
  /\ tz = 0
  /\ users = StoredUsers
  /\ ui = NoUi

\* A database before or after scripts/seed.ts.
InitDb ==
  /\ seeded \in BOOLEAN
  /\ categories = IF seeded THEN DefaultCats ELSE {}
  /\ ids = [cat |-> 0, bud |-> 0]
  /\ InitRest

\* The budgets of a database in which user u1 has created one category.
InitBudget ==
  /\ seeded \in BOOLEAN
  /\ categories = (IF seeded THEN DefaultCats ELSE {})
                    \cup {[_id |-> 1, name |-> Rent, userId |-> "u1"]}
  /\ ids = [cat |-> 1, bud |-> 0]
  /\ InitRest

\* The bodies of PUT /api/budgets/{id}: an amount alone, or any choice of
\* categoryId, category and periodStart.
UpdateInputs ==
  {up \in [amount : {Absent, 100}, categoryId : {Absent, NullId, BadHex, 0, 1},
           category : {NoName} \cup NameInputs,
           periodStart : {NoDate, At(2024, 1, 31, MsPerDay - 1),
                          At(2024, 2, 1, 0), At(2024, 2, 15, 43200000)}] :
     up.amount = Absent
       \/ (up.categoryId = Absent /\ up.category = NoName /\ up.periodStart = NoDate)}

\* No request is between two of its round trips.
Quiet == \A i \in DOMAIN pending : pending[i].pc = "idle"

\* Requests served one after the other: a request starts when none is in
\* flight, and then takes its steps.
NextBudget ==
  \/ /\ Quiet
     /\ \E u \in Users, cid \in CategoryIdInputs, name \in CategoryInputs,
           ps \in PeriodInputs \cup {NoDate}, amt \in Amounts :
             CreateBudgetStart(u, cid, name, ps, amt)
  \/ \E i \in DOMAIN pending : CreateBudgetConflict(i)
  \/ \E i \in DOMAIN pending : CreateBudgetInsert(i)
  \/ /\ Quiet
     /\ \E u \in Users, bid \in BudgetIdInputs, up \in UpdateInputs :
           UpdateBudget(u, bid, up)
  \/ /\ Quiet
     /\ \E u \in Users, bid \in BudgetIdInputs : DeleteBudget(u, bid)

SpecBudget == InitBudget /\ [][NextBudget]_vars

\* createBudget requests served concurrently: their round trips interleave.
NextBudgetRace ==
  \/ \E u \in Users, cid \in CategoryIdInputs, name \in CategoryInputs,
        ps \in PeriodInputs \cup {NoDate}, amt \in Amounts :
          CreateBudgetStart(u, cid, name, ps, amt)
  \/ \E i \in DOMAIN pending : CreateBudgetConflict(i)
  \/ \E i \in DOMAIN pending : CreateBudgetInsert(i)

\* The requests of SpecBudgetAccess: budgets in either category and in two
\* months, and updates of the amount, the categoryId or the periodStart.
AccessCategoryIds == {0, 1}
AccessPeriods == {At(2024, 1, 1, 0), At(2024, 2, 15, 43200000)}
AccessUpdates ==
  {up \in UpdateInputs :
     /\ up.category = NoName
     /\ up.categoryId \in {Absent, NullId, 0}
     /\ up.periodStart \in {NoDate, At(2024, 2, 1, 0)}}

\* Budgets created, read, listed, updated and deleted by either user, one
\* request after the other.
NextBudgetAccess ==
  \/ /\ Quiet
     /\ \E u \in Users, cid \in AccessCategoryIds, ps \in AccessPeriods, amt \in Amounts :
           CreateBudgetStart(u, cid, NoName, ps, amt)
  \/ \E i \in DOMAIN pending : CreateBudgetConflict(i)
  \/ \E i \in DOMAIN pending : CreateBudgetInsert(i)
  \/ /\ Quiet
     /\ \E u \in Users, bid \in BudgetIdInputs, up \in AccessUpdates :
           UpdateBudget(u, bid, up)
  \/ /\ Quiet
     /\ \E u \in Users, bid \in BudgetIdInputs : DeleteBudget(u, bid)
  \/ /\ Quiet
     /\ \E u \in Users, bid \in BudgetIdInputs \cup {BadHex, Absent} : GetBudget(u, bid)
  \/ /\ Quiet
     /\ \E u \in Users, ps \in {NoDate} \cup AccessPeriods,
           cid \in {Absent, BadHex} \cup AccessCategoryIds : GetAllBudgets(u, ps, cid)

SpecBudgetAccess == InitBudget /\ [][NextBudgetAccess]_vars

\* The database as scripts/seed.ts leaves it: the indexes exist.
InitSeededBudget == InitBudget /\ seeded

SpecBudgetRace == InitSeededBudget /\ [][NextBudgetRace]_vars

NextCategory ==
  \/ /\ Quiet
     /\ \E u \in Users, raw \in RawNameInputs : CreateCategoryStart(u, raw)
  \/ \E i \in DOMAIN pending : CreateCategoryInsert(i)
  \/ /\ Quiet
     /\ \E u \in Users, cid \in (0..MaxCategoryInserts) \cup {BadHex} :
           DeleteCategory(u, cid)
  \/ \E i \in DOMAIN pending : DeleteCategoryCascade(i)
  \/ \E i \in DOMAIN pending : DeleteCategoryCascadeFails(i)
  \/ /\ Quiet
     /\ \E u \in Users, cid \in 0..MaxCategoryInserts, s \in BOOLEAN :
           InsertExpense(u, cid, s)

SpecCategory == InitDb /\ [][NextCategory]_vars

\* createCategory requests served concurrently: the lookup of one can fall
\* between the lookup and the insert of another.
NextCategoryRace ==
  \/ \E u \in Users, raw \in RawNameInputs : CreateCategoryStart(u, raw)
  \/ \E i \in DOMAIN pending : CreateCategoryInsert(i)

SpecCategoryRace == InitDb /\ [][NextCategoryRace]_vars

\* ------------------------------------------------------------------------
\* Specifications of the reports over a stored set of expenses
\* ------------------------------------------------------------------------
InitReports ==
  /\ seeded = TRUE
  /\ categories = DefaultCats
  /\ ids = [cat |-> 0, bud |-> 0]
  /\ budgets = {}
  /\ pending = [i \in 1..MaxPending |-> Idle]
  /\ resp = NoResp

TrendDates ==
  {At(2023, 11, 20, 0), At(2023, 12, 31, MsPerDay - 1), At(2024, 1, 1, 0),
   At(2024, 2, 10, 0), At(2024, 3, 1, 0)}
TrendExpenses ==
  {Expense(u, amt, cur, Food, Oid(0), d, 1) :
     u \in Users, amt \in {100}, cur \in Currencies, d \in TrendDates}

InitTrends ==
  /\ InitReports
  /\ expenses \in SeqsUpTo(TrendExpenses, MaxTrendExpenses)
  /\ now \in {At(2024, 1, 15, 0), At(2024, 2, 29, 43200000), At(2024, 3, 15, 0)}
  /\ tz = 0
  /\ users = StoredUsers
  /\ ui = NoUi

NextTrends == \E u \in Users, q \in MonthsInputs : Trends(u, q)

SpecTrends == InitTrends /\ [][NextTrends]_vars

RangeDates ==
  {At(2023, 12, 31, MsPerDay - 1), At(2024, 1, 31, 0), At(2024, 1, 31, MsPerDay - 1),
   At(2024, 2, 1, 0)}
FromInputs == {At(2024, 1, 1, 0)}
ToInputs ==
  {At(2024, 1, 31, 0), At(2024, 1, 31, 500), At(2024, 1, 31, 43200000),
   At(2024, 1, 30, 82800000)}
Zones == {0, 3600000}
\* The expenses of u1 in every mix of amount, currency, category and date,
\* with two large runs of equal documents among them, and expenses of u2.
RangeExpenses ==
  {Expense("u1", amt, cur, g[1], g[2], d, 1) :
     amt \in {100, 250}, cur \in Currencies,
     g \in {<<Food, Oid(0)>>, <<Uncategorized, NoCategoryId>>}, d \in RangeDates}
  \cup {Expense("u1", 100, "USD", Food, Oid(0), At(2024, 1, 31, 0), n) :
          n \in {MAX_ROWS - 1, MAX_ROWS}}
  \cup {Expense("u2", 100, "USD", Food, Oid(0), d, 1) : d \in RangeDates}

InitRange ==
  /\ InitReports
  /\ expenses \in SeqsUpTo(RangeExpenses, MaxRangeExpenses)
  /\ now = At(2024, 3, 15, 0)
  /\ tz \in Zones
  /\ users = StoredUsers
  /\ ui = NoUi

NextRange ==
  \/ \E u \in Users, from \in FromInputs, to \in ToInputs : CategoryReport(u, from, to)
  \/ \E u \in Users, from \in FromInputs, to \in ToInputs, format \in FormatInputs :
       ExpensesExport(u, from, to, format)

SpecRange == InitRange /\ [][NextRange]_vars

\* ------------------------------------------------------------------------
\* Properties of the budgets and categories
\* ------------------------------------------------------------------------
\* 00:00:00.000 UTC on day 1 of the UTC month of t.
FirstOfMonth(t) == LET c == CivilFromDays(t.day) IN At(c.y, c.m, 1, 0)

\* The shape of a step in which a request of kind op arrives: it is answered
\* at once, or it enters a free slot at pc.
StartStep(op, pc) ==
  \/ pending' = pending /\ resp'.op = op
  \/ \E i \in DOMAIN pending : pending[i].pc = "idle" /\ pending'[i].pc = pc

SameBudgetKey(a, b) ==
  a.userId = b.userId /\ a.categoryId = b.categoryId /\ a.periodStart = b.periodStart

\* C1: no two distinct budgets share (userId, categoryId, periodStart), a null
\* categoryId included, after any sequence of createBudget, updateBudget and
\* deleteBudget requests.
C1_OneBudgetPerKey ==
  \A a \in budgets, b \in budgets : SameBudgetKey(a, b) => a._id = b._id

\* C2: when deleteCategory answers 204 for category c, no expense is left with
\* categoryId c (ObjectId or string), and every expense that referenced c now
\* has categoryId null and category "Uncategorized".
C2_CascadeOnDelete ==
  [][\A i \in DOMAIN pending :
       (pending[i].pc = "cascade" /\ pending'[i].pc = "idle"
        /\ resp'.op = "deleteCategory" /\ resp'.status = 204)
       => LET c == pending[i].categoryId IN
          /\ Len(expenses') = Len(expenses)
          /\ \A k \in DOMAIN expenses' :
               ~(expenses'[k].categoryId.id = c
                 /\ expenses'[k].categoryId.form \in {"oid", "str"})
          /\ \A k \in DOMAIN expenses :
               (expenses[k].categoryId.id = c
                /\ expenses[k].categoryId.form \in {"oid", "str"})
               => /\ expenses'[k].categoryId.form = "null"
                  /\ expenses'[k].category = Uncategorized]_vars

\* A deleteCategory has answered 204 and an expense stored with the string
\* form of a category id has been moved to "Uncategorized".
C2_Witness ==
  /\ resp.op = "deleteCategory" /\ resp.status = 204
  /\ \E k \in DOMAIN expenses :
       expenses[k].category = Uncategorized /\ expenses[k].categoryId.form = "null"

\* The name a createCategory request asks for clashes, for user u, with a
\* global category or with one of u's own: equal after trimming, letter case
\* ignored.
NameTaken(rawName, u) ==
  \E c \in categories :
    /\ c.userId \in {NULL, u}
    /\ Len(c.name) = Len(Trim(rawName))
    /\ \A k \in 1..Len(c.name) : Lower(c.name[k]) = Lower(Trim(rawName)[k])

\* C3: createCategory by u with a name that is taken (global or u's own,
\* trimmed, case-insensitive) is answered 409 and inserts nothing; a name
\* used only by another user's category is no conflict: the request goes on
\* to insert, is answered 201 and the new category is owned by u.
C3_CategoryNameConflict ==
  [][/\ StartStep("createCategory", "catInsert") =>
        \A u \in Users, raw \in RawNameInputs :
          CreateCategoryStart(u, raw) =>
            IF NameTaken(raw, u)
            THEN /\ resp' = Response("createCategory", u, 409, "category_exists")
                 /\ categories' = categories
                 /\ pending' = pending
            ELSE /\ categories' = categories
                 /\ \E i \in DOMAIN pending :
                      /\ pending[i].pc = "idle"
                      /\ pending'[i].pc = "catInsert"
                      /\ pending'[i].user = u
                      /\ pending'[i].reqName = raw
     /\ \A i \in DOMAIN pending :
          (pending[i].pc = "catInsert" /\ pending'[i].pc = "idle") =>
            /\ resp' = Response("createCategory", pending[i].user, 201, "")
            /\ \E c \in categories' :
                 /\ c \notin categories
                 /\ c.userId = pending[i].user
                 /\ c.name = Trim(pending[i].reqName)
                 /\ categories' = categories \cup {c}]_vars

\* Two users own categories whose names differ only in case, and a further
\* request for that name has been answered 409.
C3_Witness ==
  /\ resp.op = "createCategory" /\ resp.status = 409
  /\ \E a \in categories, b \in categories :
       /\ a.userId \in Users /\ b.userId \in Users /\ a.userId # b.userId
       /\ CollationEq(a.name, b.name)

\* C4: a createBudget for (u, c, any instant of month m) is answered 409
\* budget_exists, the budgets unchanged, whenever a budget (u, c,
\* first-of-month(m)) exists when the request looks for it.
C4_DuplicateMonthRejected ==
  [][/\ StartStep("createBudget", "conflict") =>
        \A u \in Users, cid \in CategoryIdInputs, name \in CategoryInputs,
           ps \in PeriodInputs, amt \in Amounts :
          (CreateBudgetStart(u, cid, name, ps, amt)
           /\ \E b \in budgets : /\ b.userId = u /\ b.categoryId = cid
                                 /\ b.periodStart = FirstOfMonth(ps))
          => \E i \in DOMAIN pending :
               /\ pending'[i].pc = "conflict" /\ pending'[i].user = u
               /\ pending'[i].categoryId = cid /\ pending'[i].reqPeriod = ps
     /\ \A i \in DOMAIN pending :
          (/\ pending[i].pc = "conflict" /\ pending'[i] # pending[i]
           /\ \E b \in budgets :
                /\ b.userId = pending[i].user
                /\ b.categoryId = pending[i].categoryId
                /\ b.periodStart = FirstOfMonth(pending[i].reqPeriod))
          => /\ resp'.op = "createBudget" /\ resp'.status = 409
             /\ resp'.error = "budget_exists"
             /\ budgets' = budgets
             /\ pending'[i].pc = "idle"]_vars

\* A createBudget that named the last millisecond of a month has been
\* answered 409 because of the budget stored for the first of that month.
C4_Witness ==
  /\ resp.op = "createBudget" /\ resp.status = 409
  /\ resp.req.periodStart # FirstOfMonth(resp.req.periodStart)
  /\ \E b \in budgets :
       /\ b.userId = resp.user /\ b.categoryId = resp.req.categoryId
       /\ b.periodStart = FirstOfMonth(resp.req.periodStart)

\* C5: with the seeded index in place, however two createBudget requests for
\* one (user, category, month) interleave their lookup and insert, at most
\* one budget for that (user, category, month) is stored.
C5_RaceStoresOne ==
  \A a \in budgets, b \in budgets :
    (a.userId = b.userId /\ a.categoryId = b.categoryId
     /\ FirstOfMonth(a.periodStart) = FirstOfMonth(b.periodStart)) => a._id = b._id

\* Both requests passed the conflict lookup; the second insert was stopped by
\* the index, and one budget for the key is stored.
C5_Witness ==
  /\ resp.op = "createBudget" /\ resp.status = 500
  /\ \E b \in budgets :
       /\ b.userId = resp.user /\ b.categoryId = resp.req.categoryId
       /\ b.periodStart = FirstOfMonth(resp.req.periodStart)

\* ------------------------------------------------------------------------
\* Properties of the reports
\* ------------------------------------------------------------------------
\* C6: every trends response carries exactly `months` entries, months being
\* the requested count clamped to 1..24 (6 when the parameter is absent),
\* whatever value the parameter carries; a month in which the user has no
\* expense is an entry with totalUSD = 0 and totalNGN = 0.
C6_SeriesLength ==
  (resp.op = "trends" /\ resp.status = 200) =>
    LET n == Len(resp.series) IN
    /\ n \in 1..24
    /\ (resp.months.kind = "absent" => n = 6)
    /\ (resp.months.kind = "num" => 2 * n = Max2(2, Min2(48, resp.months.halves)))
    /\ \A i \in 1..n :
         (\A k \in DOMAIN expenses :
            ~(/\ expenses[k].userId = resp.user
              /\ MonthKey(AbsMonth(expenses[k].date)) = resp.series[i].month))
         => (resp.series[i].totalUSD = 0 /\ resp.series[i].totalNGN = 0)

\* C7: the trends series is a run of consecutive UTC months in ascending
\* order that starts months-1 months before the current month and ends at the
\* current month; each entry's totalUSD and totalNGN are the sums of the
\* amounts of the user's USD and NGN expenses dated in that month, so that
\* nothing else contributes to an entry.
C7_SeriesWindow ==
  (resp.op = "trends" /\ resp.status = 200) =>
    LET n == Len(resp.series)
        cur == AbsMonth(now)
        UserTotal(am, c) ==
          Total(SelectSeq(expenses, LAMBDA e :
                  e.userId = resp.user /\ e.currency = c /\ AbsMonth(e.date) = am))
    IN
    /\ n >= 1
    /\ (resp.months.kind = "absent" => n - 1 = 5)
    /\ (resp.months.kind = "num" =>
          2 * (n - 1) = Max2(2, Min2(48, resp.months.halves)) - 2)
    /\ \A i \in 1..n :
         /\ resp.series[i].month = MonthKey(cur - n + i)
         /\ resp.series[i].totalUSD = UserTotal(cur - n + i, "USD")
         /\ resp.series[i].totalNGN = UserTotal(cur - n + i, "NGN")

\* C8: a CSV export is answered with an error and no CSV exactly when more
\* than 5000 expenses of the user match the date range; with 5000 or fewer
\* it is answered 200 with one data record per matching expense, in
\* descending date order, none left out.
C8_ExportThreshold ==
  (resp.op = "export" /\ resp.status # 400) =>
    LET matched == RangeMatch(expenses, resp.user, resp.from, RangeEnd(resp.to, tz))
        KeyOf(e) == [date |-> e.date.day, category |-> e.category, amount |-> e.amount]
        Stored(key) == DocCount(SelectSeq(matched, LAMBDA e : KeyOf(e) = key))
        Written(key) ==
          DocCount(SelectSeq(resp.records, LAMBDA r :
            [date |-> r.date, category |-> r.category, amount |-> r.amount] = key))
    IN
    IF DocCount(matched) > 5000
    THEN resp.status = 413 /\ resp.error = "too_large" /\ resp.records = <<>>
    ELSE /\ resp.status = 200
         /\ DocCount(resp.records) = DocCount(matched)
         /\ \A k \in DOMAIN matched : Written(KeyOf(matched[k])) = Stored(KeyOf(matched[k]))
         /\ \A i \in 1..(Len(resp.records) - 1) :
              resp.records[i].date >= resp.records[i + 1].date

\* An export of exactly 5000 matching expenses has been answered 200 with
\* 5000 data records.
C8_Witness ==
  /\ resp.op = "export" /\ resp.status = 200
  /\ DocCount(resp.records) = 5000

\* C9: in the category report and the CSV export, a `to` exactly at midnight
\* makes the range [from, to + 1 day), and a `to` with any other time of day
\* makes it [from, to), no day added: the response covers the user's expenses
\* of that range and no other.
C9_MidnightInclusive ==
  (resp.op \in {"byCategory", "export"} /\ resp.status = 200) =>
    LET end == IF resp.to.ms = 0 THEN PlusOneUTCDay(resp.to) ELSE resp.to
        inRange == SelectSeq(expenses, LAMBDA e :
                     /\ e.userId = resp.user
                     /\ NotBefore(e.date, resp.from)
                     /\ Before(e.date, end))
        sum[i \in 0..Len(resp.rows)] ==
          IF i = 0 THEN 0
          ELSE sum[i - 1] + resp.rows[i].totalUSD + resp.rows[i].totalNGN
    IN
    IF resp.op = "byCategory"
    THEN sum[Len(resp.rows)] = Total(inRange)
    ELSE DocCount(resp.records) = DocCount(inRange)

\* C10: the category report has one row per distinct (categoryId, category
\* name) among the user's expenses in the range; a row's totalUSD and
\* totalNGN are the sums of the amounts of its group's USD and NGN expenses;
\* the rows come in non-increasing order of totalUSD + totalNGN.
C10_CategoryRows ==
  (resp.op = "byCategory" /\ resp.status = 200) =>
    LET matched == RangeMatch(expenses, resp.user, resp.from, RangeEnd(resp.to, tz))
        keys == {<<matched[k].categoryId, matched[k].category>> : k \in DOMAIN matched}
        Sum(key, cur) ==
          Total(SelectSeq(matched, LAMBDA e :
                  e.categoryId = key[1] /\ e.category = key[2] /\ e.currency = cur))
        n == Len(resp.rows)
    IN
    /\ n = Cardinality(keys)
    /\ \A key \in keys : \E i \in 1..n :
         resp.rows[i] = [categoryId |-> key[1], category |-> key[2],
                         totalUSD |-> Sum(key, "USD"), totalNGN |-> Sum(key, "NGN")]
    /\ \A i \in 1..(n - 1) :
         resp.rows[i].totalUSD + resp.rows[i].totalNGN
           >= resp.rows[i + 1].totalUSD + resp.rows[i + 1].totalNGN

\* A report of two categories, the first with the larger combined total, one
\* of them in NGN and the other in USD.
C10_Witness ==
  /\ resp.op = "byCategory" /\ resp.status = 200
  /\ Len(resp.rows) = 2
  /\ resp.rows[1].totalNGN > resp.rows[2].totalUSD
  /\ resp.rows[1].totalUSD = 0 /\ resp.rows[2].totalNGN = 0 /\ resp.rows[2].totalUSD > 0

\* ------------------------------------------------------------------------
\* GET /api/reports/monthly  (handlers/reports/monthlyReports.ts)
\* ------------------------------------------------------------------------
MaxMonthlyCategories == 6   \* categories with an expense in SpecMonthly

\* { userId, date: { $gte: start, $lt: end }, currency: { $in: ["USD", "NGN"] } }
MonthlyTotalsMatch(es, u, start, end) ==
  SelectSeq(RangeMatch(es, u, start, end), LAMBDA e : e.currency \in {"USD", "NGN"})

\* $group by currency: total, count, avg; avg is kept as the fraction
\* num / den that $avg divides out.
CurrencyRow(es, cur) ==
  LET grp == SelectSeq(es, LAMBDA e : e.currency = cur)
  IN  [currency |-> cur, total |-> Total(grp), count |-> DocCount(grp),
       avg |-> [num |-> Total(grp), den |-> DocCount(grp)]]
TotalsByCurrency(es) ==
  {CurrencyRow(es, es[k].currency) : k \in DOMAIN es}

\* $group by (categoryId, category): total over every currency.
CategoryTotal(es, g) ==
  [categoryId |-> g.categoryId, category |-> g.category,
   total |-> Total(SelectSeq(es, LAMBDA e :
                e.categoryId = g.categoryId /\ e.category = g.category))]

\* { $sort: { total: -1 } }: the orders in which the rows can come, rows of
\* equal total in either order.
RECURSIVE SortedByTotal(_)
SortedByTotal(rows) ==
  IF rows = {} THEN {<<>>}
  ELSE UNION {{<<g>> \o t : t \in SortedByTotal(rows \ {g})} :
                g \in {x \in rows : \A y \in rows : x.total >= y.total}}

TOP_CATEGORIES == 5

\* { $limit: 5 }
LimitRows(rows, n) == SubSeq(rows, 1, Min2(n, Len(rows)))

\* year: /^\d{4}$/, month: /^\d{1,2}$/, both through Number(); any one or
\* two digits pass as a month.
YearInputs == {2024}
MonthlyInputs == {0, 1, 2, 12, 13}

\* `${year}-${String(month).padStart(2, "0")}`: the year and the month number
\* as the request sent them.
Period(year, month) == [y |-> year, m |-> month]

MonthlyReport(u, year, month) ==
  LET start == DateUTCMonth(year * 12 + (month - 1))
      end == DateUTCMonth(year * 12 + month)
      forTotals == MonthlyTotalsMatch(expenses, u, start, end)
      matched == RangeMatch(expenses, u, start, end)
      groups == {CategoryTotal(matched, g) : g \in GroupKeys(matched)}
  IN
  /\ \E sorted \in SortedByTotal(groups) :
       resp' = [op |-> "monthly", user |-> u, status |-> 200, error |-> "",
                year |-> year, month |-> month,
                period |-> Period(year, month),
                window |-> [start |-> start, end |-> end],
                totals |-> TotalsByCurrency(forTotals),
                topCategories |-> LimitRows(sorted, TOP_CATEGORIES)]
  /\ UNCHANGED <<categories, budgets, expenses, pending, seeded, ids, now, tz, users, ui>>

\* The name of the custom category with id i.
CatName(i) == <<"C", ToString(i)>>

\* The expenses the i-th stored document is drawn from: one category each,
\* the last one also from the other user or in the category before it.
MonthlySlot(i) ==
  {Expense(u, amt, IF i % 2 = 1 THEN "USD" ELSE "NGN", CatName(c), Oid(c), d, 1) :
     u \in (IF i = MaxMonthlyCategories THEN Users ELSE {"u1"}),
     c \in (IF i = MaxMonthlyCategories THEN {i - 1, i} ELSE {i}),
     amt \in (IF i <= 2 THEN {100, 250} ELSE {100 * i, 100 * i + 50}),
     d \in (IF i = 1 THEN {At(2023, 12, 31, MsPerDay - 1), At(2024, 1, 1, 0)}
            ELSE IF i = 2 THEN {At(2024, 1, 31, MsPerDay - 1), At(2024, 2, 1, 0)}
            ELSE IF i = MaxMonthlyCategories
            THEN {At(2024, 1, 31, MsPerDay - 1), At(2024, 2, 1, 0),
                  At(2024, 12, 31, MsPerDay - 1), At(2025, 1, 1, 0)}
            ELSE {At(2024, 1, 31, MsPerDay - 1)})}

RECURSIVE MonthlyExpenses(_)
MonthlyExpenses(n) ==
  IF n = 0 THEN {<<>>}
  ELSE {Append(es, e) : es \in MonthlyExpenses(n - 1), e \in MonthlySlot(n)}

InitMonthly ==
  /\ seeded = TRUE
  /\ categories = DefaultCats \cup
       {[_id |-> i, name |-> CatName(i), userId |-> "u1"] : i \in 1..MaxMonthlyCategories}
  /\ ids = [cat |-> MaxMonthlyCategories, bud |-> 0]
  /\ budgets = {}
  /\ pending = [i \in 1..MaxPending |-> Idle]
  /\ resp = NoResp
  /\ expenses \in MonthlyExpenses(MaxMonthlyCategories)
  /\ now = At(2024, 3, 15, 0)
  /\ tz = 0
  /\ users = StoredUsers
  /\ ui = NoUi

NextMonthly ==
  \E u \in Users, year \in YearInputs, month \in MonthlyInputs : MonthlyReport(u, year, month)

SpecMonthly == InitMonthly /\ [][NextMonthly]_vars

\* C11: the monthly report for (year, month) covers exactly the caller's
\* expenses dated in that UTC month: one totals entry per currency (USD, NGN
\* only) with total, count and avg = total / count of that currency's
\* expenses, and at most 5 topCategories, none left out having a larger total
\* than one listed.
C11_MonthlyReport ==
  (resp.op = "monthly" /\ resp.status = 200) =>
    LET inMonth == SelectSeq(expenses, LAMBDA e :
                     /\ e.userId = resp.user
                     /\ CivilFromDays(e.date.day).y = resp.year
                     /\ CivilFromDays(e.date.day).m = resp.month)
        Of(cur) == SelectSeq(inMonth, LAMBDA e : e.currency = cur)
        keys == GroupKeys(inMonth)
        CatSum(key) == Total(SelectSeq(inMonth, LAMBDA e :
                         e.categoryId = key.categoryId /\ e.category = key.category))
        KeyOf(row) == [categoryId |-> row.categoryId, category |-> row.category]
        top == resp.topCategories
    IN
    /\ \A t \in resp.totals :
         /\ t.currency \in {"USD", "NGN"}
         /\ \A t2 \in resp.totals : t2.currency = t.currency => t2 = t
         /\ t.total = Total(Of(t.currency))
         /\ t.count = DocCount(Of(t.currency))
         /\ t.count > 0
         /\ t.avg.num * t.count = t.total * t.avg.den
    /\ \A cur \in {"USD", "NGN"} : Of(cur) # <<>> => \E t \in resp.totals : t.currency = cur
    /\ Len(top) = Min2(5, Cardinality(keys))
    /\ \A i \in 1..Len(top) :
         /\ KeyOf(top[i]) \in keys
         /\ top[i].total = CatSum(KeyOf(top[i]))
         /\ \A j \in 1..Len(top) : i # j => KeyOf(top[i]) # KeyOf(top[j])
    /\ \A key \in keys :
         (\A i \in 1..Len(top) : KeyOf(top[i]) # key)
           => \A i \in 1..Len(top) : CatSum(key) <= top[i].total

\* The budget with id bid, if stored.
BudgetById(bs, bid) == {b \in bs : b._id = bid}

\* C12: every budget stored by createBudget or updateBudget has a periodStart
\* at 00:00:00.000 UTC on day 1 of the UTC month of the date the client sent,
\* and a periodStart sent as it is stored is stored unchanged.
C12_CanonicalPeriodStart ==
  /\ \A b \in budgets : b.periodStart = FirstOfMonth(b.periodStart)
  /\ (resp.op = "createBudget" /\ resp.status = 201)
       => /\ BudgetById(budgets, ids.bud) # {}
          /\ \A b \in BudgetById(budgets, ids.bud) :
               /\ b.periodStart = FirstOfMonth(resp.req.periodStart)
               /\ (\E old \in budgets : old.periodStart = resp.req.periodStart)
                    => b.periodStart = resp.req.periodStart
  /\ Quiet =>
       \A u \in Users, bid \in BudgetIdInputs, up \in UpdateInputs :
         up.periodStart # NoDate =>
           \A o \in UpdateBudgetOutcomes(u, bid, up) :
             o.status = 200 =>
               \A old \in BudgetById(budgets, bid), new \in BudgetById(o.budgets, bid) :
                 /\ new.periodStart = FirstOfMonth(up.periodStart)
                 /\ up.periodStart = old.periodStart
                      => new.periodStart = old.periodStart

\* A createBudget that sent a date inside a month has stored a budget dated
\* the first instant of that month.
C12_Witness ==
  /\ resp.op = "createBudget" /\ resp.status = 201
  /\ resp.req.periodStart # FirstOfMonth(resp.req.periodStart)
  /\ \E b \in budgets :
       /\ b.userId = resp.user /\ b.categoryId = resp.req.categoryId
       /\ b.periodStart = FirstOfMonth(resp.req.periodStart)
       /\ b.periodStart = At(2024, 1, 1, 0)

\* Another budget of user u than bid holds the (categoryId, periodStart) of doc.
KeyTaken(u, bid, doc) ==
  \E b \in budgets :
    /\ b._id # bid /\ b.userId = u
    /\ b.categoryId = doc.categoryId /\ b.periodStart = doc.periodStart

\* C13: updateBudget answers 409 and changes nothing exactly when another
\* budget of the same user already has the (categoryId, periodStart) the
\* updated budget would have after the update, whichever of categoryId,
\* category or periodStart the request changes; an update whose resulting
\* (categoryId, periodStart) is free for that user is applied.
C13_UpdateConflict ==
  Quiet =>
    \A u \in Users, bid \in BudgetIdInputs, up \in UpdateInputs :
      \A sp \in SetPayloads(up, u), old \in BudgetById(budgets, bid) :
        (old.userId = u /\ up.categoryId # BadHex) =>
          \A o \in UpdateBudgetOutcomes(u, bid, up) :
            IF KeyTaken(u, bid, ApplySet(old, sp))
            THEN o.status = 409 /\ o.budgets = budgets
            ELSE o.status = 200 /\ ApplySet(old, sp) \in o.budgets

\* C14: deleteCategory removes a category only when it is a custom category
\* owned by the requesting user; for a global category, a category of another
\* user or an unknown id it answers 404 and leaves the categories and the
\* expenses unchanged.
C14_DeleteOwnOnly ==
  [][/\ \A c \in categories \ categories' :
          /\ c.userId # NULL
          /\ \E i \in DOMAIN pending :
               /\ pending[i].pc = "idle" /\ pending'[i].pc = "cascade"
               /\ pending'[i].user = c.userId /\ pending'[i].categoryId = c._id
     /\ StartStep("deleteCategory", "cascade") =>
          \A u \in Users, cid \in 0..MaxCategoryInserts :
            (DeleteCategory(u, cid)
             /\ ~\E c \in categories : c._id = cid /\ c.userId = u /\ c.userId # NULL)
            => /\ resp'.op = "deleteCategory" /\ resp'.status = 404
               /\ resp'.error = "not_found"
               /\ categories' = categories /\ expenses' = expenses]_vars

\* A deleteCategory naming a global category, or one of another user that an
\* expense refers to, has been answered 404.
C14_Witness ==
  /\ resp.op = "deleteCategory" /\ resp.status = 404
  /\ \E c \in categories :
       /\ c._id = resp.req.categoryId /\ c.userId # resp.user
       /\ (c.userId = NULL
           \/ \E k \in DOMAIN expenses : expenses[k].categoryId.id = c._id)

\* doc refers to a category that user u can see, under that category's name.
NamesAccessibleCategory(doc, u) ==
  \E c \in AccessibleCategory(doc.categoryId, u) : doc.category = c.name

\* C15: a non-null categoryId that createBudget or updateBudget stores for
\* user u is a category that is global or owned by u, and the stored category
\* name is that category's name whatever name the client sent; a categoryId
\* naming a missing category or another user's category is answered 400 and
\* nothing is written.
C15_CategoryResolved ==
  /\ [](/\ \A b \in budgets :
             b.categoryId # NullId => NamesAccessibleCategory(b, b.userId)
        /\ \A i \in DOMAIN pending :
             pending[i].pc \in {"conflict", "insert"}
             => NamesAccessibleCategory(pending[i], pending[i].user)
        /\ Quiet =>
             \A u \in Users, bid \in BudgetIdInputs, up \in UpdateInputs :
               up.categoryId \notin {Absent, NullId, BadHex} =>
                 \A o \in UpdateBudgetOutcomes(u, bid, up) :
                   IF AccessibleCategory(up.categoryId, u) = {}
                   THEN /\ o.status = 400 /\ o.error = "invalid_category"
                        /\ o.budgets = budgets
                   ELSE o.status = 200 =>
                          \A new \in BudgetById(o.budgets, bid) :
                            /\ new.categoryId = up.categoryId
                            /\ NamesAccessibleCategory(new, u))
  /\ [][/\ \A i \in DOMAIN pending :
             (pending[i].pc = "insert" /\ pending'[i].pc = "idle")
             => \A b \in budgets' \ budgets :
                  /\ b.userId = pending[i].user
                  /\ b.categoryId = pending[i].categoryId
                  /\ NamesAccessibleCategory(b, pending[i].user)
        /\ StartStep("createBudget", "conflict") =>
             \A u \in Users, cid \in CategoryIdInputs \ {BadHex, BlankStr, Absent},
                name \in CategoryInputs, ps \in PeriodInputs, amt \in Amounts :
               (CreateBudgetStart(u, cid, name, ps, amt) /\ AccessibleCategory(cid, u) = {})
               => /\ resp'.op = "createBudget" /\ resp'.status = 400
                  /\ resp'.error = "invalid_category"
                  /\ budgets' = budgets /\ pending' = pending]_vars

\* A createBudget that sent a category name of its own has stored the budget
\* under the name of the category its categoryId refers to.
C15_Witness ==
  /\ resp.op = "createBudget" /\ resp.status = 201
  /\ resp.req.category # NoName
  /\ \E b \in BudgetById(budgets, ids.bud) :
       /\ b.categoryId = resp.req.categoryId
       /\ b.category # resp.req.category
       /\ NamesAccessibleCategory(b, resp.user)

\* C16: however concurrent createCategory requests interleave their lookup
\* and insert, no two categories visible to one user (global or owned by that
\* user) have names equal ignoring case.
C16_UniqueNamesUnderRace ==
  \A u \in Users :
    \A a \in categories, b \in categories :
      (a.userId \in {NULL, u} /\ b.userId \in {NULL, u} /\ CollationEq(a.name, b.name))
      => a._id = b._id

\* C17: after any sequence of createBudget and updateBudget requests every
\* stored budget has a non-null categoryId, and a createBudget request past
\* its presence check carries one.
C17_BudgetsHaveCategory ==
  /\ \A b \in budgets : b.categoryId # NullId
  /\ \A i \in DOMAIN pending :
       pending[i].pc \in {"conflict", "insert"}
       => pending[i].categoryId \notin {NullId, Absent, BlankStr}

\* C18: getBudget, updateBudget and deleteBudget called by user a leave every
\* budget of another user unchanged and return none of its contents, and
\* getAllBudgets returns only budgets whose userId is the caller's.
C18_OwnBudgetsOnly ==
  /\ [](Quiet =>
          \A a \in Users, bid \in BudgetIdInputs, up \in AccessUpdates :
            \A o \in UpdateBudgetOutcomes(a, bid, up) :
              /\ \A d \in o.data : d.userId = a
              /\ \A b \in BudgetById(budgets, bid) :
                   b.userId # a => (b \in o.budgets /\ o.status # 200))
  /\ [][(/\ resp'.op \in {"getBudget", "getAllBudgets", "updateBudget", "deleteBudget"}
         /\ pending' = pending)
        => /\ \A b \in budgets : b.userId # resp'.user => b \in budgets'
           /\ resp'.op \in {"getBudget", "getAllBudgets"} =>
                /\ budgets' = budgets
                /\ \A k \in DOMAIN resp'.data : resp'.data[k].userId = resp'.user
           /\ resp'.op = "getBudget" =>
                \A b \in BudgetById(budgets, resp'.id) :
                  b.userId # resp'.user => (resp'.status = 404 /\ resp'.data = <<>>)
           /\ resp'.op = "deleteBudget" =>
                \A b \in budgets \ budgets' : b.userId = resp'.user]_vars

\* A getBudget for the id of another user's budget has been answered 404
\* while that user has the budget, and the caller has a budget of their own.
C18_Witness ==
  /\ resp.op = "getBudget" /\ resp.status = 404
  /\ \E b \in BudgetById(budgets, resp.id) : b.userId # resp.user
  /\ \E b \in budgets : b.userId = resp.user

\* ------------------------------------------------------------------------
\* GET /api/expenses  (handlers/expenses/getAllExpenses.ts)
\* ------------------------------------------------------------------------
MaxListExpenses == 4   \* stored expense runs in SpecList

\* An expense document with its description.
Described(e, text) ==
  [userId |-> e.userId, amount |-> e.amount, currency |-> e.currency,
   description |-> text, category |-> e.category, categoryId |-> e.categoryId,
   date |-> e.date, count |-> e.count]

\* The categoryIds parameter: left out, "", a list with a part that is not 24
\* hex digits, or the ids that split(",").filter(Boolean) leaves.
NoIds == [kind |-> "absent", ids |-> {}]
EmptyIds == [kind |-> "empty", ids |-> {}]
BadIds == [kind |-> "bad", ids |-> {}]
Ids(S) == [kind |-> "list", ids |-> S]

\* A string Number() reads as Infinity.
InfParam == [kind |-> "inf", halves |-> 0]

\* The value is truthy: if (categoryIds), if (categoryId), if (category).
HasIds(q) == q.categoryIds.kind = "list"
HasId(q) == q.categoryId \notin {Absent, BlankStr}
HasCategory(q) == q.category # NoName

\* Variant: the single categoryId tried before the list of ids.
CategoryFilterIdFirst(e, q) ==
  IF HasId(q) THEN e.categoryId = Oid(q.categoryId)
  ELSE IF HasIds(q) THEN e.categoryId \in {Oid(i) : i \in q.categoryIds.ids}
  ELSE IF HasCategory(q) THEN e.category = q.category
  ELSE TRUE

\* if (categoryIds) ... else if (categoryId) ... else if (category) ...
CategoryFilter(e, q) ==
  IF HasIds(q) THEN e.categoryId \in {Oid(i) : i \in q.categoryIds.ids}
  ELSE IF HasId(q) THEN e.categoryId = Oid(q.categoryId)
  ELSE IF HasCategory(q) THEN e.category = q.category
  ELSE TRUE

\* filter.date: $gte from, $lte to, each when sent.
DateFilter(e, q) ==
  /\ (q.from # NoDate => NotBefore(e.date, q.from))
  /\ (q.to # NoDate => NotBefore(q.to, e.date))

\* new RegExp(escapeRegex(term), "i").test(text)
Contains(text, term) ==
  \E i \in 1..(Len(text) - Len(term) + 1) :
    SubSeq(Fold(text), i, i + Len(term) - 1) = Fold(term)

\* q: the description alone under a category filter, else description or
\* category.
SearchFilter(e, q) ==
  LET term == Trim(q.q) IN
  IF term = <<>> THEN TRUE
  ELSE IF HasCategory(q) \/ HasId(q) \/ HasIds(q)
  THEN Contains(e.description, term)
  ELSE Contains(e.description, term) \/ Contains(e.category, term)

ExpenseFilter(e, u, q) ==
  e.userId = u /\ CategoryFilter(e, q) /\ DateFilter(e, q) /\ SearchFilter(e, q)

\* The limit transform, then typeof maybeLimit === "number" ? maybeLimit : 20.
EffectiveLimit(p) ==
  IF p.kind \in {"absent", "nan", "inf"} THEN 20
  ELSE Max2(1, Min2(100, TruncHalves(IF p.kind = "empty" THEN 0 ELSE p.halves)))

\* The page transform, then typeof maybePage === "number" ? maybePage : 1.
EffectivePage(p) ==
  IF p.kind \in {"absent", "nan", "inf"} THEN 1
  ELSE Max2(1, TruncHalves(IF p.kind = "empty" THEN 0 ELSE p.halves))

\* Variant: a skip of page * limit documents.
SkipWholePages(page, limit) == page * limit

\* const skip = (page - 1) * limit
SkipCount(page, limit) == (page - 1) * limit

\* What is left of the documents es stands for after the first n.
RECURSIVE Drop(_, _)
Drop(es, n) ==
  IF n <= 0 \/ es = <<>> THEN es
  ELSE IF Head(es).count <= n THEN Drop(Tail(es), n - Head(es).count)
  ELSE <<[Head(es) EXCEPT !.count = @ - n]>> \o Tail(es)

\* The answers the request can get: validation, countDocuments, then
\* find(filter).sort({ date: -1 }).skip(skip).limit(limit), documents of one
\* date in either order.
ExpenseListOutcomes(u, q) ==
  LET O(status, error, total, page, limit, data) ==
        [status |-> status, error |-> error, total |-> total, page |-> page,
         limit |-> limit, data |-> data]
      limit == EffectiveLimit(q.limit)
      page == EffectivePage(q.page)
      matched == SelectSeq(expenses, LAMBDA e : ExpenseFilter(e, u, q))
  IN
  IF q.categoryId = BadHex \/ q.categoryIds.kind = "bad"
  THEN {O(400, "validation_error", 0, 0, 0, <<>>)}
  ELSE {O(200, "", DocCount(matched), page, limit,
          Take(Drop([k \in 1..Len(matched) |-> matched[p[k]]], SkipCount(page, limit)),
               limit)) :
          p \in {r \in Orders(Len(matched)) :
                   SortedByDateDesc([k \in 1..Len(matched) |-> matched[r[k]]])}}

GetAllExpenses(u, q) ==
  /\ \E o \in ExpenseListOutcomes(u, q) :
       resp' = [op |-> "getAllExpenses", user |-> u, status |-> o.status,
                error |-> o.error,
                query |-> [categoryIds |-> q.categoryIds, categoryId |-> q.categoryId,
                           category |-> q.category],
                total |-> o.total, page |-> o.page, limit |-> o.limit, data |-> o.data]
  /\ UNCHANGED <<categories, budgets, expenses, pending, seeded, ids, now, tz, users, ui>>

\* No parameter sent.
NoQuery ==
  [from |-> NoDate, to |-> NoDate, category |-> NoName, categoryId |-> Absent,
   categoryIds |-> NoIds, q |-> NoName, limit |-> NoParam, page |-> NoParam]

\* Requests that vary the category parameters and the search term.
CategoryQueries ==
  {[NoQuery EXCEPT !.category = c, !.categoryId = i, !.categoryIds = l, !.q = t] :
     c \in {NoName, Food}, i \in {Absent, BlankStr, BadHex, 1},
     l \in {NoIds, EmptyIds, BadIds, Ids({}), Ids({0}), Ids({0, 1})},
     t \in {NoName, <<"o">>}}

\* Requests that vary limit and page.
LimitInputs ==
  {NoParam, EmptyParam, NotANumber, InfParam}
    \cup {Num(h) : h \in {-2, 1, 5, 200, 202}}
PageInputs ==
  {NoParam, EmptyParam, NotANumber, InfParam} \cup {Num(h) : h \in {-2, 2, 4, 5, 6}}
PagingQueries ==
  {[NoQuery EXCEPT !.limit = l, !.page = p] : l \in LimitInputs, p \in PageInputs}

\* Requests that send a date range, a blank search term or a category alone.
RangeQueries ==
  {[NoQuery EXCEPT !.from = f, !.to = t, !.q = s, !.category = c] :
     f \in {NoDate, At(2024, 1, 10, 0)}, t \in {NoDate, At(2024, 1, 10, 0)},
     s \in {NoName, <<" ">>}, c \in {NoName, Rent}}

ListQueries == CategoryQueries \cup PagingQueries \cup RangeQueries

\* The documents the i-th stored run is drawn from.
ListSlot(i) ==
  IF i = 1
  THEN {Described(Expense("u1", 100, "USD", Food, Oid(0), At(2024, 1, 10, 0), n),
                  <<"b", "u", "s">>) : n \in {1, 150}}
  ELSE IF i = 2
  THEN {Described(Expense("u1", 250, "NGN", Rent, Oid(1), d, 1), <<"t", "O", "n", "e", "r">>) :
          d \in {At(2024, 1, 10, 0), At(2024, 1, 20, 0)}}
  ELSE IF i = 3
  THEN {Described(Expense("u1", 100, "USD", Uncategorized, NoCategoryId,
                          At(2024, 1, 5, 0), 1), <<"b", "u", "s">>),
        Described(Expense("u1", 100, "USD", Food, Oid(0), At(2024, 1, 5, 0), 30),
                  <<"b", "u", "s">>)}
  ELSE {Described(Expense("u2", 100, "USD", Food, Oid(0), At(2024, 1, 15, 0), 1),
                  <<"b", "u", "s">>)}

RECURSIVE ListExpenses(_)
ListExpenses(n) ==
  IF n = 0 THEN {<<>>}
  ELSE {Append(es, e) : es \in ListExpenses(n - 1), e \in ListSlot(n)}

\* A database holding expenses of both users, filed under the default
\* category, a category of u1 and no category.
InitList ==
  /\ seeded = TRUE
  /\ categories = DefaultCats \cup {[_id |-> 1, name |-> Rent, userId |-> "u1"]}
  /\ ids = [cat |-> 1, bud |-> 0]
  /\ budgets = {}
  /\ pending = [i \in 1..MaxPending |-> Idle]
  /\ resp = NoResp
  /\ expenses \in ListExpenses(MaxListExpenses)
  /\ now = At(2024, 3, 15, 0)
  /\ tz = 0
  /\ users = StoredUsers
  /\ ui = NoUi

NextList == \E u \in Users, q \in ListQueries : GetAllExpenses(u, q)

SpecList == InitList /\ [][NextList]_vars

\* The query with every category parameter ranked below the highest one sent
\* taken out.
TopRanked(q) ==
  IF HasIds(q) THEN [q EXCEPT !.categoryId = Absent, !.category = NoName]
  ELSE IF HasId(q) THEN [q EXCEPT !.category = NoName]
  ELSE q

\* Document e passes the highest-ranked category parameter of q.
PassesTopRanked(e, q) ==
  /\ (HasIds(q) => \E i \in q.categoryIds.ids : e.categoryId = Oid(i))
  /\ (~HasIds(q) /\ HasId(q) => e.categoryId = Oid(q.categoryId))
  /\ (~HasIds(q) /\ ~HasId(q) /\ HasCategory(q) => e.category = q.category)

\* C19: in the expense list the category filters rank categoryIds over
\* categoryId over category: every listed expense belongs to the caller and
\* passes the highest-ranked filter sent, the total counts exactly the caller's
\* expenses that pass it (and the date range and search term), and the answer
\* is the one the request gets with the lower-ranked filters left out.
C19_CategoryPrecedence ==
  \A u \in Users, q \in ListQueries :
    \A o \in ExpenseListOutcomes(u, q) :
      o.status = 200 =>
        /\ \A k \in 1..Len(o.data) :
             o.data[k].userId = u /\ PassesTopRanked(o.data[k], q)
        /\ o.total = DocCount(SelectSeq(expenses, LAMBDA e :
                        /\ e.userId = u
                        /\ PassesTopRanked(e, q)
                        /\ DateFilter(e, q)
                        /\ SearchFilter(e, q)))
        /\ ExpenseListOutcomes(u, TopRanked(q)) = ExpenseListOutcomes(u, q)

\* A list asked for with all three category filters, ids {0} ranked first, has
\* answered with expenses of category 0 only, the caller's own.
C19_Witness ==
  /\ resp.op = "getAllExpenses"
  /\ resp.status = 200
  /\ resp.query = [categoryIds |-> Ids({0}), categoryId |-> 1, category |-> Food]
  /\ resp.data # <<>>
  /\ resp.total > 100
  /\ \A k \in 1..Len(resp.data) :
       resp.data[k].categoryId = Oid(0) /\ resp.data[k].userId = resp.user
  /\ \E k \in 1..Len(expenses) :
       expenses[k].userId = resp.user /\ expenses[k].categoryId = Oid(1)
  /\ \E k \in 1..Len(expenses) :
       expenses[k].userId # resp.user /\ expenses[k].categoryId = Oid(0)

\* C20: the limit in force is in 1..100 (20 when the parameter is absent or
\* not a finite number), the page in force is at least 1 (1 when absent or not
\* finite), the answer holds at most limit expenses, namely the matches that
\* follow the first (page - 1) * limit in descending date order, and total is
\* the number of all matches whatever page and limit are.
C20_Paging ==
  \A u \in Users, q \in ListQueries :
    \A o \in ExpenseListOutcomes(u, q) :
      o.status = 200 =>
        LET matches == SelectSeq(expenses, LAMBDA e : ExpenseFilter(e, u, q))
            skip == (o.page - 1) * o.limit
            shown == DocCount(o.data)
            Later(d) == DocCount(SelectSeq(matches, LAMBDA e : Before(d, e.date)))
            NotEarlier(d) == DocCount(SelectSeq(matches, LAMBDA e : NotBefore(e.date, d)))
        IN
        /\ o.limit \in 1..100
        /\ (q.limit.kind \in {"absent", "nan", "inf"} => o.limit = 20)
        /\ (q.limit.kind = "num" =>
              o.limit = Max2(1, Min2(100, TruncHalves(q.limit.halves))))
        /\ o.page >= 1
        /\ (q.page.kind \in {"absent", "nan", "inf"} => o.page = 1)
        /\ (q.page.kind = "num" => o.page = Max2(1, TruncHalves(q.page.halves)))
        /\ shown <= o.limit
        /\ shown = Min2(o.limit, Max2(0, o.total - skip))
        /\ SortedByDateDesc(o.data)
        /\ \A k \in 1..Len(o.data) : ExpenseFilter(o.data[k], u, q)
        /\ (o.data # <<>> =>
              /\ Later(o.data[1].date) <= skip
              /\ NotEarlier(o.data[1].date) > skip
              /\ Later(o.data[Len(o.data)].date) < skip + shown
              /\ NotEarlier(o.data[Len(o.data)].date) >= skip + shown)
        /\ o.total = DocCount(matches)
        /\ \A o2 \in ExpenseListOutcomes(u, [q EXCEPT !.limit = NoParam, !.page = NoParam]) :
             o2.total = o.total

\* The second page of 100 of a list of more than 150 matches has answered with
\* the matches after the first 100.
C20_Witness ==
  /\ resp.op = "getAllExpenses"
  /\ resp.status = 200
  /\ resp.limit = 100
  /\ resp.page = 2
  /\ resp.total > 150
  /\ DocCount(resp.data) = resp.total - 100
  /\ Len(resp.data) >= 2

\* ------------------------------------------------------------------------
\* POST /api/auth/register  (handlers/auth.ts)
\* ------------------------------------------------------------------------
MaxUsers == 4   \* documents the users collection holds at most

\* The emails register requests carry, after validation.
EmailInputs == {"u1@x", "a@x", "b@x", "c@x"}

\* Variant: an insert that always succeeds.
NoEmailIndex(email) == FALSE

\* users.createIndex({ email: 1 }, { unique: true }): insertOne throws E11000
\* when the index exists and a document holds the email.
EmailDuplicate(email) == seeded /\ \E d \in users : d.email = email

RegisterResponse(status, error, email) ==
  [op |-> "register", user |-> NULL, status |-> status, error |-> error,
   req |-> NoReq, email |-> email]

\* users.findOne({ email }): 409 user_exists, or on to hashPassword and
\* insertOne.
RegisterStart(email) ==
  IF \E d \in users : d.email = email
  THEN /\ resp' = RegisterResponse(409, "user_exists", email)
       /\ UNCHANGED <<categories, budgets, expenses, pending, seeded, ids, now, tz, users, ui>>
  ELSE /\ \E i \in FreeSlots :
            pending' = [pending EXCEPT ![i] =
              [Idle EXCEPT !.pc = "regInsert", !.email = email]]
       /\ UNCHANGED <<categories, budgets, expenses, resp, seeded, ids, now, tz, users, ui>>

\* users.insertOne(...): 201 with the new user, or the catch block's 409 on
\* err.code === 11000.
RegisterInsert(i) ==
  LET r == pending[i] IN
  /\ r.pc = "regInsert"
  /\ Cardinality(users) < MaxUsers
  /\ pending' = [pending EXCEPT ![i] = Idle]
  /\ IF EmailDuplicate(r.email)
     THEN /\ resp' = RegisterResponse(409, "user_exists", r.email)
          /\ UNCHANGED users
     ELSE /\ users' = users \cup
                        {[_id |-> UserIds[Cardinality(users) + 1], email |-> r.email]}
          /\ resp' = RegisterResponse(201, "", r.email)
  /\ UNCHANGED <<categories, budgets, expenses, seeded, ids, now, tz, ui>>

\* Register requests whose database round trips interleave.
NextRegister ==
  \/ \E email \in EmailInputs : RegisterStart(email)
  \/ \E i \in DOMAIN pending : RegisterInsert(i)

\* The database after scripts/seed.ts, the two users registered.
InitRegister ==
  /\ seeded = TRUE
  /\ categories = DefaultCats
  /\ ids = [cat |-> 0, bud |-> 0]
  /\ InitRest

SpecRegister == InitRegister /\ [][NextRegister]_vars

\* C21: under any interleaving of register requests no two users hold the
\* same email, a request answered 201 has stored its user, and a request that
\* finds its email taken, at the lookup or at the insert, is answered 409
\* user_exists and stores nothing.
C21_UniqueEmails ==
  /\ [](\A a, b \in users : a.email = b.email => a = b)
  /\ [][resp'.op = "register" /\ resp' # resp =>
          /\ resp'.status \in {201, 409}
          /\ (\E d \in users : d.email = resp'.email)
               => resp'.status = 409 /\ resp'.error = "user_exists" /\ users' = users
          /\ resp'.status = 201
               => \E d \in users' \ users : d.email = resp'.email]_vars

\* Two registrations of one email were in flight past the lookup together:
\* one has stored its user, the other has been answered 409 at the insert.
C21_Witness ==
  /\ resp = RegisterResponse(409, "user_exists", "a@x")
  /\ \E d \in users : d.email = "a@x"
  /\ \A i \in DOMAIN pending : pending[i].pc = "idle"
  /\ Cardinality(users) = 3

\* ------------------------------------------------------------------------
\* The CSV text of GET /api/reports/export  (handlers/reports/expensesReport.ts)
\* ------------------------------------------------------------------------
MaxCsvExpenses == 2   \* stored expense documents in SpecCsv

\* Characters of the text; a string is a sequence of them.
BOM == "BOM"
LF == "LF"
CR == "CR"
QUOTE == "\""

\* parts.join(sep)
RECURSIVE Join(_, _)
Join(parts, sep) ==
  IF parts = <<>> THEN <<>>
  ELSE IF Len(parts) = 1 THEN parts[1]
  ELSE parts[1] \o sep \o Join(Tail(parts), sep)

\* s.replace(/"/g, '""')
RECURSIVE Escaped(_)
Escaped(s) ==
  IF s = <<>> THEN <<>>
  ELSE (IF Head(s) = QUOTE THEN <<QUOTE, QUOTE>> ELSE <<Head(s)>>) \o Escaped(Tail(s))

\* Variant: a cell written as it is, never quoted.
CellAsIs(s) == s

\* One cell of toCSVRow: quoted when it holds a quote, comma, LF or CR.
Cell(s) ==
  IF \E i \in DOMAIN s : s[i] \in {QUOTE, ",", LF, CR}
  THEN <<QUOTE>> \o Escaped(s) \o <<QUOTE>>
  ELSE Escaped(s)

\* cells.join(", ")
ToCSVRow(arr) == Join([i \in DOMAIN arr |-> Cell(arr[i])], <<",", " ">>)

\* The decimal digits of a natural number.
RECURSIVE Digits(_)
Digits(n) ==
  LET d == <<"0", "1", "2", "3", "4", "5", "6", "7", "8", "9">>[(n % 10) + 1] IN
  IF n < 10 THEN <<d>> ELSE Append(Digits(n \div 10), d)

Pad2(n) == IF n < 10 THEN <<"0">> \o Digits(n) ELSE Digits(n)

\* d.toISOString().slice(0, 10)
FormatDateOnlyUTC(t) ==
  LET c == CivilFromDays(t.day) IN
  Digits(c.y) \o <<"-">> \o Pad2(c.m) \o <<"-">> \o Pad2(c.d)

\* en-US grouping: a comma before every three digits from the right.
RECURSIVE Grouped(_)
Grouped(ds) ==
  IF Len(ds) <= 3 THEN ds
  ELSE Grouped(SubSeq(ds, 1, Len(ds) - 3)) \o <<",">> \o SubSeq(ds, Len(ds) - 2, Len(ds))

\* Intl.NumberFormat("en-US", two fraction digits) of a whole amount.
FormatAmount(n) ==
  (IF n < 0 THEN <<"-">> ELSE <<>>)
    \o Grouped(Digits(IF n < 0 THEN -n ELSE n)) \o <<".", "0", "0">>

CsvHeader ==
  << <<"D", "a", "t", "e">>,
     <<"D", "e", "s", "c", "r", "i", "p", "t", "i", "o", "n">>,
     <<"C", "a", "t", "e", "g", "o", "r", "y">>,
     <<"A", "m", "o", "u", "n", "t">> >>

\* The rows pushed for the documents: one record and one blank row each.
RECURSIVE CsvRows(_)
CsvRows(docs) ==
  IF docs = <<>> THEN <<>>
  ELSE LET d == Head(docs)
           row == ToCSVRow(<<FormatDateOnlyUTC(d.date), d.description, d.category,
                             FormatAmount(d.amount)>>)
       IN  <<row, <<>>>>
             \o (IF d.count > 1
                 THEN CsvRows(<<[d EXCEPT !.count = @ - 1]>> \o Tail(docs))
                 ELSE CsvRows(Tail(docs)))

\* "﻿" + rows.join("\n")
CsvContent(docs) == <<BOM>> \o Join(<<ToCSVRow(CsvHeader), <<>>>> \o CsvRows(docs), <<LF>>)

\* GET /api/reports/export?format=csv, answered with the CSV text.
ExportCsv(u, from, to) ==
  LET R(status, error, docs, body) ==
        [op |-> "exportCsv", user |-> u, status |-> status, error |-> error,
         docs |-> docs, body |-> body]
      matched == RangeMatch(expenses, u, from, RangeEnd(to, tz))
  IN
  /\ \E p \in Orders(Len(matched)) :
       LET sorted == [i \in 1..Len(matched) |-> matched[p[i]]]
           docs == Take(sorted, FetchLimit)
       IN  /\ SortedByDateDesc(sorted)
           /\ IF DocCount(docs) > MAX_ROWS
              THEN resp' = R(413, "too_large", <<>>, <<>>)
              ELSE resp' = R(200, "", docs, CsvContent(docs))
  /\ UNCHANGED <<categories, budgets, expenses, pending, seeded, ids, now, tz, users, ui>>

\* Descriptions: every string of at most two of these characters, and some
\* longer ones.
CsvChars == {"a", ",", " ", QUOTE, LF}
CsvTexts ==
  SeqsUpTo(CsvChars, 2)
    \cup {<<"a", ",", " ", "b">>, <<QUOTE, ",", " ", QUOTE>>, <<"a", CR, LF, "b">>,
          <<QUOTE, "a", QUOTE, ",", " ">>}

\* The documents the i-th stored expense is drawn from.
CsvSlot(i) ==
  IF i = 1
  THEN {Described(Expense("u1", amt, "USD", cat, Oid(0), At(2024, 1, 10, 0), 1), text) :
          amt \in {5, 1234567}, cat \in {Food, <<"A", ",", " ", "B">>},
          text \in CsvTexts}
  ELSE {Described(Expense(u, 1234, "NGN", Rent, Oid(1), At(2024, 1, 18 + i, 0), 1), text) :
          u \in Users, text \in {<<>>, <<"a", ",", " ", QUOTE>>}}

RECURSIVE CsvExpenses(_)
CsvExpenses(n) ==
  IF n = 0 THEN {<<>>}
  ELSE {Append(es, e) : es \in CsvExpenses(n - 1), e \in CsvSlot(n)}

InitCsv ==
  /\ InitReports
  /\ expenses \in UNION {CsvExpenses(n) : n \in 0..MaxCsvExpenses}
  /\ now = At(2024, 3, 15, 0)
  /\ tz = 0
  /\ users = StoredUsers
  /\ ui = NoUi

NextCsv ==
  \E u \in Users, to \in {At(2024, 1, 15, 0), At(2024, 1, 31, 0)} :
    ExportCsv(u, At(2024, 1, 1, 0), to)

SpecCsv == InitCsv /\ [][NextCsv]_vars

\* The pieces of s between the occurrences of sep that lie outside double
\* quotes (an even number of quotes before them).
RECURSIVE Pieces(_, _, _)
Pieces(s, cuts, len) ==
  IF cuts = {} THEN <<s>>
  ELSE LET c == CHOOSE x \in cuts : \A y \in cuts : x <= y IN
       <<SubSeq(s, 1, c - 1)>>
         \o Pieces(SubSeq(s, c + len, Len(s)), {d - (c + len - 1) : d \in cuts \ {c}}, len)
SplitUnquoted(s, sep) ==
  Pieces(s, {i \in 1..(Len(s) - Len(sep) + 1) :
               /\ SubSeq(s, i, i + Len(sep) - 1) = sep
               /\ Cardinality({j \in 1..(i - 1) : s[j] = QUOTE}) % 2 = 0},
         Len(sep))

\* What a reader takes a field to say: outer quotes removed, doubled quotes
\* read as one.
RECURSIVE Undoubled(_)
Undoubled(s) ==
  IF Len(s) >= 2 /\ s[1] = QUOTE /\ s[2] = QUOTE
  THEN <<QUOTE>> \o Undoubled(SubSeq(s, 3, Len(s)))
  ELSE IF s = <<>> THEN <<>> ELSE <<Head(s)>> \o Undoubled(Tail(s))
Unquoted(f) ==
  IF Len(f) >= 2 /\ f[1] = QUOTE /\ f[Len(f)] = QUOTE
  THEN Undoubled(SubSeq(f, 2, Len(f) - 1))
  ELSE f

\* C22: the CSV body of n exported expenses is a BOM followed by 2n+2 lines
\* joined by newlines: the header "Date, Description, Category, Amount", a
\* blank line, then per expense one record line and one blank line; a record
\* splits on the separators outside quotes into exactly four fields, which
\* read back as the expense's date, description, category and amount, a field
\* being quoted exactly when it holds a comma, quote, CR or LF.
C22_CsvLayout ==
  (resp.op = "exportCsv" /\ resp.status = 200) =>
    LET n == Len(resp.docs)
        lines == SplitUnquoted(Tail(resp.body), <<LF>>)
    IN
    /\ Head(resp.body) = BOM
    /\ Len(lines) = 2 * n + 2
    /\ lines[1] = Join(CsvHeader, <<",", " ">>)
    /\ lines[2] = <<>>
    /\ \A k \in 1..n :
         LET f == SplitUnquoted(lines[2 * k + 1], <<",", " ">>)
             d == resp.docs[k]
         IN
         /\ lines[2 * k + 2] = <<>>
         /\ Len(f) = 4
         /\ Unquoted(f[1]) = FormatDateOnlyUTC(d.date)
         /\ Unquoted(f[2]) = d.description
         /\ Unquoted(f[3]) = d.category
         /\ Unquoted(f[4]) = FormatAmount(d.amount)
         /\ \A j \in 1..4 :
              (f[j] # <<>> /\ f[j][1] = QUOTE /\ f[j][Len(f[j])] = QUOTE /\ Len(f[j]) >= 2)
                <=> (\E i \in DOMAIN Unquoted(f[j]) : Unquoted(f[j])[i] \in {QUOTE, ",", LF, CR})

\* Two expenses have been exported, one with a description that holds the
\* separator and a quote, one with an amount that holds commas.
C22_Witness ==
  /\ resp.op = "exportCsv"
  /\ resp.status = 200
  /\ Len(resp.docs) = 2
  /\ resp.docs[1].description = <<"a", ",", " ", QUOTE>>
  /\ resp.docs[2].amount = 1234567
  /\ resp.docs[2].description = <<QUOTE, ",", " ", QUOTE>>

\* ------------------------------------------------------------------------
\* The expenses page  (client/src/pages/expenses/expenses.tsx)
\* ------------------------------------------------------------------------
\* useDebouncedValue(searchTerm, 300): the delay, in ticks of 100 ms.
DelayTicks == 3

\* Values of the search input, and date strings "2024-01-dd" as the day dd;
\* the empty string (and undefined) of a date is NoDay.
SearchInputs == {"", "a", "ab"}
NoDay == 0
DayInputs == {NoDay, 10, 20}
PanelCategoryIds == {0, 1}

\* Variant: a change of the value leaves a pending timer in place.
KeepTimer(old, value) ==
  IF old.armed THEN old ELSE [armed |-> TRUE, value |-> value, left |-> DelayTicks]

\* The effect of useDebouncedValue after a change of value: clearTimeout of
\* the pending timer (the cleanup), then setTimeout(..., delayMs).
ResetTimer(old, value) == [armed |-> TRUE, value |-> value, left |-> DelayTicks]

\* The effect that keeps the URL in sync with the applied filters and the
\* debounced search term.
SyncUrl(p) ==
  [p EXCEPT !.url = [q |-> p.debounced, categoryIds |-> p.appliedCategoryIds,
                     from |-> p.appliedFrom, to |-> p.appliedTo]]

\* The state of ExpensesContent after its first render and effects, opened
\* at a URL with the given search parameters.  held: the values the search
\* input has held; idle: ticks since it last changed, counted up to the delay.
MountPage(q, categoryIds, from, to) ==
  SyncUrl([open |-> TRUE,
           searchTerm |-> q, debounced |-> q,
           timer |-> ResetTimer([armed |-> FALSE, value |-> q, left |-> 0], q),
           held |-> {q}, idle |-> 0,
           workingCategoryIds |-> categoryIds, workingFrom |-> from, workingTo |-> to,
           appliedCategoryIds |-> categoryIds, appliedFrom |-> from, appliedTo |-> to,
           url |-> [q |-> q, categoryIds |-> categoryIds, from |-> from, to |-> to]])

UiStep(p) ==
  /\ ui.open
  /\ ui' = p
  /\ UNCHANGED <<categories, budgets, expenses, pending, resp, seeded, ids, now, tz, users>>

\* onChange of the search input: setSearchTerm(e.target.value); a value equal
\* to the current one causes no render.
TypeSearch(v) ==
  /\ v # ui.searchTerm
  /\ UiStep([ui EXCEPT !.searchTerm = v, !.timer = ResetTimer(@, v),
                       !.held = @ \cup {v}, !.idle = 0])

\* 100 ms pass before the pending timer is due.
Tick ==
  /\ ui.open /\ ui.timer.armed /\ ui.timer.left > 0
  /\ UiStep([ui EXCEPT !.timer.left = @ - 1, !.idle = Min2(DelayTicks, @ + 1)])

\* The timer callback: setDebounced(value), then the effects of the render.
FireTimer ==
  /\ ui.open /\ ui.timer.armed /\ ui.timer.left = 0
  /\ UiStep(SyncUrl([ui EXCEPT !.debounced = ui.timer.value, !.timer.armed = FALSE]))

\* const dateRangeInvalid = Boolean(workingFrom && workingTo) && workingFrom > workingTo
DateRangeInvalid(p) ==
  p.workingFrom # NoDay /\ p.workingTo # NoDay /\ p.workingFrom > p.workingTo

SetWorkingFrom(v) == UiStep([ui EXCEPT !.workingFrom = v])
SetWorkingTo(v) == UiStep([ui EXCEPT !.workingTo = v])

\* toggleCategory(id)
ToggleCategory(id) ==
  UiStep([ui EXCEPT !.workingCategoryIds =
            IF id \in @ THEN @ \ {id} ELSE @ \cup {id}])

\* handleApply
HandleApply ==
  IF DateRangeInvalid(ui)
  THEN UiStep(ui)
  ELSE UiStep(SyncUrl([ui EXCEPT !.appliedCategoryIds = ui.workingCategoryIds,
                                 !.appliedFrom = ui.workingFrom,
                                 !.appliedTo = ui.workingTo]))

\* handleClear
HandleClear ==
  UiStep(SyncUrl([ui EXCEPT !.workingCategoryIds = {}, !.workingFrom = NoDay,
                            !.workingTo = NoDay, !.appliedCategoryIds = {},
                            !.appliedFrom = NoDay, !.appliedTo = NoDay]))

\* The page opened at any URL.
InitPage ==
  /\ seeded = TRUE
  /\ categories = DefaultCats \cup {[_id |-> 1, name |-> Rent, userId |-> "u1"]}
  /\ ids = [cat |-> 1, bud |-> 0]
  /\ budgets = {}
  /\ expenses = <<>>
  /\ pending = [i \in 1..MaxPending |-> Idle]
  /\ resp = NoResp
  /\ now = At(2024, 3, 15, 0)
  /\ tz = 0
  /\ users = StoredUsers
  /\ ui \in {MountPage(q, c, from, to) :
               q \in SearchInputs, c \in SUBSET PanelCategoryIds,
               from \in DayInputs, to \in DayInputs}

\* Typing in the search box while time passes.
NextSearch ==
  \/ \E v \in SearchInputs : TypeSearch(v)
  \/ Tick
  \/ FireTimer

SpecSearch == InitPage /\ [][NextSearch]_vars

\* Time passes and a due timer runs its callback.
SpecSearchLive == SpecSearch /\ WF_vars(Tick) /\ WF_vars(FireTimer)

\* Editing, applying and clearing the filters of the panel.
NextFilters ==
  \/ \E v \in DayInputs : SetWorkingFrom(v)
  \/ \E v \in DayInputs : SetWorkingTo(v)
  \/ \E id \in PanelCategoryIds : ToggleCategory(id)
  \/ HandleApply
  \/ HandleClear

SpecFilters == InitPage /\ [][NextFilters]_vars

\* C23: the debounced search value is always a value the search input has
\* held; it changes only when the input has not changed for the whole delay;
\* and when the input stays at a value for good, the debounced value ends up
\* equal to it and stays so.
C23_Debounce ==
  /\ [](ui.debounced \in ui.held)
  /\ [][ui'.debounced # ui.debounced =>
          /\ ui.idle = DelayTicks
          /\ ui'.debounced = ui.searchTerm
          /\ ui'.searchTerm = ui.searchTerm]_vars
  /\ \A v \in SearchInputs : <>[](ui.searchTerm = v) => <>[](ui.debounced = v)

\* The input went from "" over "a" to "ab" faster than the delay; the
\* debounced value has gone from "" directly to "ab".
C23_Witness ==
  /\ ui.open
  /\ ui.held = {"", "a", "ab"}
  /\ ui.searchTerm = "ab"
  /\ ui.debounced = "ab"
  /\ ui.url.q = "ab"
  /\ ~ui.timer.armed

\* C30: on the expenses page the applied date filter, which is the one in the
\* URL and in the request, never has from later than to when both are set;
\* Apply with an invalid working range changes no applied filter, and Clear
\* empties the working and the applied filters.
C30_AppliedRangeValid ==
  /\ [](ui.open =>
          /\ (ui.appliedFrom # NoDay /\ ui.appliedTo # NoDay
                => ui.appliedFrom <= ui.appliedTo)
          /\ ui.url.from = ui.appliedFrom /\ ui.url.to = ui.appliedTo)
  /\ [][/\ (HandleApply /\ DateRangeInvalid(ui) =>
               /\ ui'.appliedFrom = ui.appliedFrom
               /\ ui'.appliedTo = ui.appliedTo
               /\ ui'.appliedCategoryIds = ui.appliedCategoryIds)
        /\ (HandleClear =>
               /\ ui'.workingFrom = NoDay /\ ui'.workingTo = NoDay
               /\ ui'.appliedFrom = NoDay /\ ui'.appliedTo = NoDay
               /\ ui'.workingCategoryIds = {} /\ ui'.appliedCategoryIds = {})]_vars

\* ------------------------------------------------------------------------
\* Categories and the budgets that reference them
\* ------------------------------------------------------------------------
\* createCategory, deleteCategory, createBudget, updateBudget and
\* deleteBudget requests of both users, served one after the other.
NextIntegrity ==
  \/ /\ Quiet
     /\ \E u \in Users, raw \in RawNameInputs : CreateCategoryStart(u, raw)
  \/ \E i \in DOMAIN pending : CreateCategoryInsert(i)
  \/ /\ Quiet
     /\ \E u \in Users, cid \in 0..MaxCategoryInserts : DeleteCategory(u, cid)
  \/ \E i \in DOMAIN pending : DeleteCategoryCascade(i)
  \/ /\ Quiet
     /\ \E u \in Users, cid \in AccessCategoryIds, ps \in AccessPeriods, amt \in Amounts :
           CreateBudgetStart(u, cid, NoName, ps, amt)
  \/ \E i \in DOMAIN pending : CreateBudgetConflict(i)
  \/ \E i \in DOMAIN pending : CreateBudgetInsert(i)
  \/ /\ Quiet
     /\ \E u \in Users, bid \in BudgetIdInputs, up \in AccessUpdates :
           UpdateBudget(u, bid, up)
  \/ /\ Quiet
     /\ \E u \in Users, bid \in BudgetIdInputs : DeleteBudget(u, bid)

SpecIntegrity == InitBudget /\ [][NextIntegrity]_vars

\* C24: every budget with a categoryId references a category that exists and
\* is global or owned by the budget's user.
C24_BudgetsReferenceCategories ==
  \A b \in budgets :
    b.categoryId # NullId =>
      \E c \in categories :
        c._id = b.categoryId /\ (c.userId = NULL \/ c.userId = b.userId)

\* C26: a deleteCategory request answered with an error status leaves the
\* category it named in place and no expense modified, also when the database
\* fails between the two writes; and once no deleteCategory is in flight, no
\* expense references a category that has been removed.
C26_DeleteAllOrNothing ==
  /\ [][resp'.op = "deleteCategory" /\ resp' # resp /\ resp'.status >= 400 =>
          /\ expenses' = expenses
          /\ \A i \in DOMAIN pending :
               pending[i].pc = "cascade" /\ pending'[i].pc = "idle" =>
                 \E c \in categories' : c._id = pending[i].categoryId]_vars
  /\ [](Quiet =>
          \A k \in DOMAIN expenses :
            expenses[k].categoryId # NoCategoryId =>
              \E c \in categories : c._id = expenses[k].categoryId.id)

\* C25: on the seeded database a createBudget for an accessible category
\* whose insert runs while the user has no budget for that category and month
\* is answered 201 and stores the budget, also when the user has a budget for
\* the category in another month; it is never answered 500.
C25_CreateOtherMonth ==
  [][\A i \in DOMAIN pending :
       (/\ seeded
        /\ pending[i].pc = "insert"
        /\ pending'[i].pc = "idle"
        /\ BudgetConflict(pending[i].user, pending[i].categoryId,
                          pending[i].periodStart) = {})
         => /\ resp'.status = 201
            /\ \E b \in budgets' \ budgets :
                 /\ b.userId = pending[i].user
                 /\ b.categoryId = pending[i].categoryId
                 /\ b.periodStart = pending[i].periodStart]_vars

\* from/to values sent as dates without a time: midnight UTC of the day.
DateOnlyInputs == {At(2024, 1, 1, 0), At(2024, 1, 31, 0)}

\* C27: for one user and the same date-only from and to, the expense list
\* selects the expenses the category report and the CSV export select, so the
\* list's total is the number of expenses the reports read.
C27_SameSelection ==
  \A u \in Users, from \in DateOnlyInputs, to \in DateOnlyInputs :
    LET q == [NoQuery EXCEPT !.from = from, !.to = to]
        reported == RangeMatch(expenses, u, from, RangeEnd(to, tz))
    IN
    /\ SelectSeq(expenses, LAMBDA e : ExpenseFilter(e, u, q)) = reported
    /\ \A o \in ExpenseListOutcomes(u, q) :
         o.status = 200 /\ o.total = DocCount(reported)

\* C28: the period the monthly report returns names a calendar month (01 to
\* 12), the one whose first instant starts the window that was aggregated and
\* whose successor's first instant ends it; a month number outside 1..12 is
\* not answered 200.
C28_PeriodNamesWindow ==
  (resp.op = "monthly") =>
    /\ (resp.status = 200 =>
          /\ resp.period.m \in 1..12
          /\ CivilFromDays(resp.window.start.day)
               = [y |-> resp.period.y, m |-> resp.period.m, d |-> 1]
          /\ resp.window.start.ms = 0
          /\ resp.window.end = DateUTCMonth(AbsMonth(resp.window.start) + 1))
    /\ (resp.month \notin 1..12 => resp.status = 400)

\* The request for page p of the caller's whole list, one expense a page.
PageOfOne(p) == [NoQuery EXCEPT !.limit = Num(2), !.page = Num(2 * p)]

\* C29: with no write in between, pages 1, 2 and 3 of a list of at most three
\* expenses, one a page, hold every matching expense exactly once, also when
\* expenses share a date.
C29_PagesPartition ==
  \A u \in Users :
    LET matches == SelectSeq(expenses, LAMBDA e : ExpenseFilter(e, u, NoQuery)) IN
    DocCount(matches) <= 3 =>
      \A o1 \in ExpenseListOutcomes(u, PageOfOne(1)),
         o2 \in ExpenseListOutcomes(u, PageOfOne(2)),
         o3 \in ExpenseListOutcomes(u, PageOfOne(3)) :
        LET all == o1.data \o o2.data \o o3.data IN
        /\ Len(all) = Len(matches)
        /\ \A k \in DOMAIN matches :
             Cardinality({j \in DOMAIN all : all[j] = matches[k]}) = 1

====
